---------------------------- MODULE ArticulationData ----------------------------
(* The lazily refreshed buffers of a PhysX articulation.  A getter asks PhysX, or *)
(* computes from other getters, on the first access after an update, and then    *)
(* answers from its buffer; the writers change the simulation between updates and *)
(* must overwrite or invalidate every buffer that shows what they changed.       *)
(*                                                                               *)
(* A buffer lags behind a quantity of the simulation if, for some environment,   *)
(* its value was made from an older value of that quantity.  Sliced properties    *)
(* go through the getters below; properties that are read or computed at every   *)
(* access, accelerations of bodies, actuator data and limits are left out.       *)
EXTENDS Naturals

CONSTANT MaxCalls       \* bound: getters and writers called between two updates

ASSUME MaxCallsAssumption == MaxCalls \in Nat

VARIABLES
    fresh,      \* buffers whose timestamp is the current one
    lag,        \* the quantities each of them lags behind
    calls       \* calls since the last update

vars == <<fresh, lag, calls>>

\* root pose, root velocity, joint positions, joint velocities, centres of mass
Quantities == {"pose", "twist", "q", "qd", "coms"}

--------------------------------------------------------------------------------
(* What the getters read *)

RootInputs == [
    root_link_pose_w |-> {"pose"},
    root_com_vel_w   |-> {"twist"},
    root_link_vel_w  |-> {"root_com_vel_w", "root_link_pose_w", "body_com_pose_b"},
    root_com_pose_w  |-> {"root_link_pose_w", "body_com_pose_b"}]

BodyInputs == [
    body_com_pose_b  |-> {"coms"},
    body_link_pose_w |-> {"pose", "q"},
    body_com_vel_w   |-> {"pose", "twist", "q", "qd"},
    body_link_vel_w  |-> {"body_com_vel_w", "body_link_pose_w", "body_com_pose_b"},
    body_com_pose_w  |-> {"body_link_pose_w", "body_com_pose_b"}]

DynamicsInputs == [
    body_com_jacobian_w         |-> {"pose", "q", "coms"},
    mass_matrix                 |-> {"q", "coms"},
    gravity_compensation_forces |-> {"pose", "q", "coms"}]

\* _previous_joint_vel has no timestamp: it is what the next difference starts from
JointInputs == [
    joint_pos           |-> {"q"},
    joint_vel           |-> {"qd"},
    joint_acc           |-> {"joint_vel", "_previous_joint_vel"},
    _previous_joint_vel |-> {"qd"}]

BaseInputs == [
    projected_gravity_b |-> {"root_link_pose_w"},
    heading_w           |-> {"root_link_pose_w"},
    root_link_lin_vel_b |-> {"root_link_vel_w", "root_link_pose_w"},
    root_link_ang_vel_b |-> {"root_link_vel_w", "root_link_pose_w"},
    root_com_lin_vel_b  |-> {"root_com_vel_w", "root_link_pose_w"},
    root_com_ang_vel_b  |-> {"root_com_vel_w", "root_link_pose_w"}]

StateInputs == [
    root_state_w      |-> {"root_link_pose_w", "root_com_vel_w"},
    root_link_state_w |-> {"root_link_pose_w", "root_link_vel_w"},
    root_com_state_w  |-> {"root_com_pose_w", "root_com_vel_w"},
    body_state_w      |-> {"body_link_pose_w", "body_com_vel_w"},
    body_link_state_w |-> {"body_link_pose_w", "body_link_vel_w"},
    body_com_state_w  |-> {"body_com_pose_w", "body_com_vel_w"}]

Kept == {"_previous_joint_vel"}
BaseFrame == DOMAIN BaseInputs
States == DOMAIN StateInputs
Buffers == DOMAIN RootInputs \cup DOMAIN BodyInputs \cup DOMAIN DynamicsInputs
           \cup DOMAIN JointInputs \cup BaseFrame \cup States

Inputs == [b \in Buffers |->
    CASE b \in DOMAIN RootInputs     -> RootInputs[b]
      [] b \in DOMAIN BodyInputs     -> BodyInputs[b]
      [] b \in DOMAIN DynamicsInputs -> DynamicsInputs[b]
      [] b \in DOMAIN JointInputs    -> JointInputs[b]
      [] b \in BaseFrame             -> BaseInputs[b]
      [] b \in States                -> StateInputs[b]]

\* the quantities a buffer shows: its inputs' inputs' inputs at most
Traced(S) == (S \cap Quantities) \cup UNION {Inputs[i] : i \in S \cap Buffers}
Shows == [b \in Buffers |-> Traced(Traced(Inputs[b]))]

--------------------------------------------------------------------------------
(* Calling getters *)

TypeOK ==
    /\ Kept \subseteq fresh /\ fresh \subseteq Buffers
    /\ lag \in [Buffers -> SUBSET Quantities]
    /\ \A b \in Buffers \ fresh : lag[b] = {}
    /\ calls \in 0..MaxCalls

\* S and the buffers that the outdated ones among S call for
Called(S) == S \cup UNION {Inputs[b] \cap Buffers : b \in S \ fresh}

\* those that are refreshed when the getters of S are called
Refreshed(S) == Called(Called(S)) \ fresh

\* one round of refreshing, from buffers that lag as L says
Refresh(S, L) == [b \in Buffers |->
    IF b \in Refreshed(S) THEN UNION {L[i] : i \in Inputs[b] \cap Buffers}
                          ELSE lag[b]]

LagAfter(S) == Refresh(S, Refresh(S, lag))

Get(b) ==
    /\ calls < MaxCalls /\ calls' = calls + 1
    /\ fresh' = fresh \cup Refreshed({b})
    /\ lag' = LagAfter({b})

\* The simulation has stepped and the articulation is updated: no timestamp is the
\* current one.  The joint acceleration is computed at once, from the velocities
\* there are and those of the previous update, which it replaces.
Update ==
    /\ calls' = 0
    /\ fresh' = {"joint_acc", "joint_vel"} \cup Kept
    /\ lag' = [b \in Buffers |-> {}]

--------------------------------------------------------------------------------
(* Writers: the getters they call, the buffers they overwrite, the quantities    *)
(* they change, the buffers they hand to PhysX and those they invalidate.         *)

BodyPoses == {"body_link_pose_w", "body_com_pose_w"}
BodyVels == {"body_link_vel_w", "body_com_vel_w"}
BodyStates == {"body_state_w", "body_link_state_w", "body_com_state_w"}

RootLinkPose == [
    calls       |-> {"root_link_pose_w"},
    sets        |-> {"root_link_pose_w"},
    changes     |-> {"pose"},
    pushes      |-> {"root_link_pose_w"},
    invalidates |-> {"root_link_state_w", "root_state_w"} \cup BodyPoses \cup BodyStates
                    \cup {"body_com_jacobian_w", "gravity_compensation_forces"}]

RootComPose == [
    calls       |-> {"body_com_pose_b", "root_com_pose_w", "root_link_pose_w"},
    sets        |-> {"root_com_pose_w", "root_link_pose_w"},
    changes     |-> {"pose"},
    pushes      |-> {"root_link_pose_w"},
    invalidates |-> {"root_com_state_w", "root_link_state_w", "root_state_w"}
                    \cup BodyPoses \cup BodyStates
                    \cup {"body_com_jacobian_w", "gravity_compensation_forces"}]

\* Mutant: only one of the two combined states is invalidated.
RootComVelocityOneState == [
    calls |-> {"root_com_vel_w"}, sets |-> {"root_com_vel_w"}, changes |-> {"twist"},
    pushes |-> {"root_com_vel_w"}, invalidates |-> {"root_com_state_w"}]

RootComVelocity == [
    calls       |-> {"root_com_vel_w"},
    sets        |-> {"root_com_vel_w"},
    changes     |-> {"twist"},
    pushes      |-> {"root_com_vel_w"},
    invalidates |-> {"root_state_w", "root_com_state_w"}]

RootLinkVelocity == [
    calls       |-> {"body_com_pose_b", "root_link_pose_w", "root_link_vel_w",
                     "root_com_vel_w"},
    sets        |-> {"root_link_vel_w", "root_com_vel_w"},
    changes     |-> {"twist"},
    pushes      |-> {"root_link_vel_w"},
    invalidates |-> {"root_link_state_w", "root_state_w", "root_com_state_w"}]

JointState == [
    calls       |-> {"joint_pos", "joint_vel", "joint_acc"},
    sets        |-> {"joint_pos", "joint_vel", "_previous_joint_vel", "joint_acc"},
    changes     |-> {"q", "qd"},
    pushes      |-> {"joint_pos", "joint_vel"},
    invalidates |-> BodyVels \cup {"body_com_pose_b"} \cup BodyPoses \cup BodyStates
                    \cup DOMAIN DynamicsInputs]

\* Mutant: the dynamics quantities are thought to be properties of the model.
JointPositionKinematic == [
    calls |-> {"joint_pos"}, sets |-> {"joint_pos"}, changes |-> {"q"},
    pushes |-> {"joint_pos"},
    invalidates |-> BodyVels \cup {"body_com_pose_b"} \cup BodyPoses \cup BodyStates]

JointPosition == [
    calls       |-> {"joint_pos"},
    sets        |-> {"joint_pos"},
    changes     |-> {"q"},
    pushes      |-> {"joint_pos"},
    invalidates |-> BodyVels \cup {"body_com_pose_b"} \cup BodyPoses \cup BodyStates
                    \cup DOMAIN DynamicsInputs]

\* Mutant: the next acceleration starts from the velocities before the reset.
JointVelocityAlone == [
    calls |-> {"joint_vel"}, sets |-> {"joint_vel"}, changes |-> {"qd"},
    pushes |-> {"joint_vel"}, invalidates |-> {}]

JointVelocity == [
    calls       |-> {"joint_vel", "joint_acc"},
    sets        |-> {"joint_vel", "_previous_joint_vel", "joint_acc"},
    changes     |-> {"qd"},
    pushes      |-> {"joint_vel"},
    invalidates |-> {}]

\* writes into the buffer whether it is outdated or not
Coms == [
    calls       |-> {},
    sets        |-> {"body_com_pose_b"},
    changes     |-> {"coms"},
    pushes      |-> {"body_com_pose_b"},
    invalidates |-> {}]

\* Does PhysX, asked for what the writer changes, answer what the writer set?
\* Not if it was handed the root's link velocity for that of its centre of mass.
Agrees(w) == w.changes \subseteq UNION {Inputs[b] : b \in w.pushes}

\* Rows of other environments keep their values, so a buffer that lagged may lag
\* on after it is overwritten.
Write(w) ==
    LET known == (fresh \cup Refreshed(w.calls)) \ w.invalidates
        exact == IF Agrees(w) THEN w.sets ELSE {}
    IN
    /\ calls < MaxCalls /\ calls' = calls + 1
    /\ fresh' = known
    /\ lag' = [b \in Buffers |->
                  IF b \notin known THEN {}
                  ELSE LagAfter(w.calls)[b]
                       \cup (IF b \in exact THEN {} ELSE Shows[b] \cap w.changes)]

Next ==
    \/ Update
    \/ \E b \in Buffers \ Kept : Get(b)
    \/ Write(RootLinkPose) \/ Write(RootComPose)
    \/ Write(RootComVelocity) \/ Write(RootLinkVelocity)
    \/ Write(JointState) \/ Write(JointPosition) \/ Write(JointVelocity)
    \/ Write(Coms)

\* an articulation updates its data when it is initialised
Init ==
    /\ fresh = {"joint_acc", "joint_vel"} \cup Kept
    /\ lag = [b \in Buffers |-> {}]
    /\ calls = 0

Spec == Init /\ [][Next]_vars

--------------------------------------------------------------------------------
(* Properties *)

Held == {"root_link_pose_w", "joint_pos", "joint_vel", "_previous_joint_vel",
         "joint_acc"}
Configured == BodyPoses \cup DOMAIN DynamicsInputs

\* The root's link pose and the joints' positions and velocities are what PhysX
\* holds, whatever was written and read since the last update; and the velocities
\* that the next joint acceleration is computed from are those a reset has written,
\* so that a reset does not show as an acceleration.
HeldCurrent == \A b \in fresh \cap Held : lag[b] = {}

\* Poses of bodies, Jacobians, mass matrices and gravity compensation that are
\* read after a write, or after any calls that follow it, belong to the root pose
\* and the joint positions that the simulation has now.
ConfigurationCurrent ==
    \A b \in fresh \cap Configured : lag[b] \cap {"pose", "q"} = {}

\* A combined state (the deprecated properties) shows the same values as the
\* properties it combines, although each of the three buffers is refreshed and
\* invalidated by itself.
StatesAreTheirParts ==
    \A s \in fresh \cap States :
        /\ Inputs[s] \subseteq fresh
        /\ lag[s] = UNION {lag[b] : b \in Inputs[s]}

\* A root velocity that was written is the one PhysX holds: the writers "set" it
\* "into the simulation", that of the root's frame "rather than the root's center
\* of mass" as well.
RootVelocityHeld ==
    "root_com_vel_w" \in fresh => "twist" \notin lag["root_com_vel_w"]

================================================================================
