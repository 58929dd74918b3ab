------------------------- MODULE ArticulationDataProofs -------------------------
(* That what the writers exchange with PhysX is what it holds, and that bodies'  *)
(* poses and dynamics follow the root pose and the joint positions, for every    *)
(* number of calls between two updates.  Both are instances of one argument      *)
(* about groups of buffers: a group that contains the buffers its getters call   *)
(* stays current if each writer, for each buffer of the group that shows what it *)
(* changes, overwrites the buffer or invalidates it.  The last section is about  *)
(* the body poses of the other backend, for every set of assets and worlds,      *)
(* every solver and every number of steps.                                       *)
EXTENDS ArticulationData, NewtonKinematics, TLAPS

\* The group G does not lag behind any of K.
Clean(L, G, K) == \A b \in G : L[b] \cap K = {}

\* The getters of G call getters of G only.
Closed(G) == G \subseteq Buffers /\ \A b \in G : Inputs[b] \cap Buffers \subseteq G

\* What the writer w does to what G shows of K, it does to the buffers.
Covers(w, G, K) ==
    \A b \in G :
        \/ Agrees(w) /\ b \in w.sets
        \/ b \in w.invalidates
        \/ Shows[b] \cap w.changes \cap K = {}

LEMMA RefreshClean ==
    ASSUME NEW G, NEW K, NEW S, NEW L, Closed(G), Clean(L, G, K), Clean(lag, G, K)
    PROVE  Clean(Refresh(S, L), G, K)
<1> SUFFICES ASSUME NEW b \in G
             PROVE  Refresh(S, L)[b] \cap K = {}
  BY DEF Clean
<1>1. b \in Buffers /\ Inputs[b] \cap Buffers \subseteq G
  BY DEF Closed
<1>2. CASE b \in Refreshed(S)
  <2>1. Refresh(S, L)[b] = UNION {L[i] : i \in Inputs[b] \cap Buffers}
    BY <1>1, <1>2 DEF Refresh
  <2>2. \A i \in Inputs[b] \cap Buffers : L[i] \cap K = {}
    BY <1>1 DEF Clean
  <2> QED
    BY <2>1, <2>2
<1>3. CASE b \notin Refreshed(S)
  BY <1>1, <1>3 DEF Refresh, Clean
<1> QED
  BY <1>2, <1>3

LEMMA LagAfterClean ==
    ASSUME NEW G, NEW K, NEW S, Closed(G), Clean(lag, G, K)
    PROVE  Clean(LagAfter(S), G, K)
<1>1. Clean(Refresh(S, lag), G, K)
  BY RefreshClean
<1> QED
  BY <1>1, RefreshClean DEF LagAfter

LEMMA UpdateClean ==
    ASSUME NEW G, NEW K, Closed(G), Update
    PROVE  Clean(lag', G, K)
BY DEF Update, Clean, Closed

LEMMA GetClean ==
    ASSUME NEW G, NEW K, Closed(G), Clean(lag, G, K), NEW b \in Buffers, Get(b)
    PROVE  Clean(lag', G, K)
BY LagAfterClean DEF Get

LEMMA WriteClean ==
    ASSUME NEW G, NEW K, Closed(G), Clean(lag, G, K), NEW w, Write(w), Covers(w, G, K)
    PROVE  Clean(lag', G, K)
<1> DEFINE known == (fresh \cup Refreshed(w.calls)) \ w.invalidates
           exact == IF Agrees(w) THEN w.sets ELSE {}
<1> SUFFICES ASSUME NEW b \in G
             PROVE  lag'[b] \cap K = {}
  BY DEF Clean
<1>1. b \in Buffers
  BY DEF Closed
<1>2. lag'[b] = IF b \notin known THEN {}
                ELSE LagAfter(w.calls)[b]
                     \cup (IF b \in exact THEN {} ELSE Shows[b] \cap w.changes)
  BY <1>1 DEF Write
<1>3. LagAfter(w.calls)[b] \cap K = {}
  BY LagAfterClean DEF Clean
<1>4. b \in exact \/ b \notin known \/ Shows[b] \cap w.changes \cap K = {}
  BY DEF Covers
<1> HIDE DEF known, exact
<1> QED
  BY <1>2, <1>3, <1>4

--------------------------------------------------------------------------------
(* The tables *)

LEMMA Domains ==
    /\ DOMAIN RootInputs = {"root_link_pose_w", "root_com_vel_w", "root_link_vel_w",
                            "root_com_pose_w"}
    /\ DOMAIN BodyInputs = {"body_com_pose_b", "body_link_pose_w", "body_com_vel_w",
                            "body_link_vel_w", "body_com_pose_w"}
    /\ DOMAIN DynamicsInputs = {"body_com_jacobian_w", "mass_matrix",
                                "gravity_compensation_forces"}
    /\ DOMAIN JointInputs = {"joint_pos", "joint_vel", "joint_acc",
                             "_previous_joint_vel"}
    /\ BaseFrame = {"projected_gravity_b", "heading_w", "root_link_lin_vel_b",
                    "root_link_ang_vel_b", "root_com_lin_vel_b", "root_com_ang_vel_b"}
    /\ States = {"root_state_w", "root_link_state_w", "root_com_state_w",
                 "body_state_w", "body_link_state_w", "body_com_state_w"}
<1>1. /\ DOMAIN RootInputs = {"root_link_pose_w", "root_com_vel_w",
                              "root_link_vel_w", "root_com_pose_w"}
      /\ DOMAIN BodyInputs = {"body_com_pose_b", "body_link_pose_w",
                              "body_com_vel_w", "body_link_vel_w", "body_com_pose_w"}
  BY DEF RootInputs, BodyInputs
<1>2. /\ DOMAIN DynamicsInputs = {"body_com_jacobian_w", "mass_matrix",
                                  "gravity_compensation_forces"}
      /\ DOMAIN JointInputs = {"joint_pos", "joint_vel", "joint_acc",
                               "_previous_joint_vel"}
  BY DEF DynamicsInputs, JointInputs
<1>3. /\ BaseFrame = {"projected_gravity_b", "heading_w", "root_link_lin_vel_b",
                      "root_link_ang_vel_b", "root_com_lin_vel_b",
                      "root_com_ang_vel_b"}
      /\ States = {"root_state_w", "root_link_state_w", "root_com_state_w",
                   "body_state_w", "body_link_state_w", "body_com_state_w"}
  BY DEF BaseFrame, States, BaseInputs, StateInputs
<1> QED
  BY <1>1, <1>2, <1>3

\* the rows of the tables that the two groups use
LEMMA InputsAre ==
    /\ Inputs["root_link_pose_w"] = {"pose"}
    /\ Inputs["root_com_vel_w"] = {"twist"}
    /\ Inputs["root_link_vel_w"] =
           {"root_com_vel_w", "root_link_pose_w", "body_com_pose_b"}
    /\ Inputs["body_com_pose_b"] = {"coms"}
    /\ Inputs["body_link_pose_w"] = {"pose", "q"}
    /\ Inputs["body_com_pose_w"] = {"body_link_pose_w", "body_com_pose_b"}
    /\ Inputs["body_com_jacobian_w"] = {"pose", "q", "coms"}
    /\ Inputs["mass_matrix"] = {"q", "coms"}
    /\ Inputs["gravity_compensation_forces"] = {"pose", "q", "coms"}
    /\ Inputs["joint_pos"] = {"q"}
    /\ Inputs["joint_vel"] = {"qd"}
    /\ Inputs["joint_acc"] = {"joint_vel", "_previous_joint_vel"}
    /\ Inputs["_previous_joint_vel"] = {"qd"}
<1>1. /\ RootInputs["root_link_pose_w"] = {"pose"}
      /\ RootInputs["root_com_vel_w"] = {"twist"}
      /\ RootInputs["root_link_vel_w"] =
             {"root_com_vel_w", "root_link_pose_w", "body_com_pose_b"}
  BY DEF RootInputs
<1>2. /\ BodyInputs["body_com_pose_b"] = {"coms"}
      /\ BodyInputs["body_link_pose_w"] = {"pose", "q"}
      /\ BodyInputs["body_com_pose_w"] = {"body_link_pose_w", "body_com_pose_b"}
  BY DEF BodyInputs
<1>3. /\ DynamicsInputs["body_com_jacobian_w"] = {"pose", "q", "coms"}
      /\ DynamicsInputs["mass_matrix"] = {"q", "coms"}
      /\ DynamicsInputs["gravity_compensation_forces"] = {"pose", "q", "coms"}
  BY DEF DynamicsInputs
<1>4. /\ JointInputs["joint_pos"] = {"q"}
      /\ JointInputs["joint_vel"] = {"qd"}
      /\ JointInputs["joint_acc"] = {"joint_vel", "_previous_joint_vel"}
      /\ JointInputs["_previous_joint_vel"] = {"qd"}
  BY DEF JointInputs
<1>5. \A b \in DOMAIN RootInputs : Inputs[b] = RootInputs[b]
  BY Domains DEF Inputs, Buffers
<1>6. \A b \in DOMAIN BodyInputs : Inputs[b] = BodyInputs[b]
  BY Domains DEF Inputs, Buffers
<1>7. \A b \in DOMAIN DynamicsInputs : Inputs[b] = DynamicsInputs[b]
  BY Domains DEF Inputs, Buffers
<1>8. \A b \in DOMAIN JointInputs : Inputs[b] = JointInputs[b]
  BY Domains DEF Inputs, Buffers
<1> QED
  BY Domains, <1>1, <1>2, <1>3, <1>4, <1>5, <1>6, <1>7, <1>8

LEMMA TracedQuantities ==
    ASSUME NEW S \in SUBSET Quantities
    PROVE  Traced(S) = S
<1>1. S \cap Buffers = {} /\ S \cap Quantities = S
  BY Domains DEF Quantities, Buffers
<1> QED
  BY <1>1 DEF Traced

LEMMA ShowsAre ==
    /\ Shows["root_link_pose_w"] = {"pose"}
    /\ Shows["joint_pos"] = {"q"}
    /\ Shows["joint_vel"] = {"qd"}
    /\ Shows["_previous_joint_vel"] = {"qd"}
    /\ Shows["joint_acc"] = {"qd"}
    /\ Shows["body_com_pose_b"] = {"coms"}
    /\ Shows["body_link_pose_w"] = {"pose", "q"}
    /\ Shows["body_com_pose_w"] = {"pose", "q", "coms"}
    /\ Shows["body_com_jacobian_w"] = {"pose", "q", "coms"}
    /\ Shows["mass_matrix"] = {"q", "coms"}
    /\ Shows["gravity_compensation_forces"] = {"pose", "q", "coms"}
<1>1. /\ {"root_link_pose_w", "joint_pos", "joint_vel", "_previous_joint_vel",
          "joint_acc", "body_com_pose_b", "body_link_pose_w", "body_com_pose_w",
          "body_com_jacobian_w", "mass_matrix", "gravity_compensation_forces"}
            \subseteq Buffers
      /\ Buffers \cap Quantities = {}
  BY Domains DEF Buffers, Quantities
<1>2. \A b \in Buffers : Inputs[b] \subseteq Quantities => Shows[b] = Inputs[b]
  BY TracedQuantities DEF Shows
<1>3. Traced({"joint_vel", "_previous_joint_vel"}) = {"qd"}
  <2>1. /\ {"joint_vel", "_previous_joint_vel"} \cap Quantities = {}
        /\ {"joint_vel", "_previous_joint_vel"} \cap Buffers =
               {"joint_vel", "_previous_joint_vel"}
    BY <1>1
  <2> QED
    BY <2>1, InputsAre DEF Traced
<1>4. Traced({"body_link_pose_w", "body_com_pose_b"}) = {"pose", "q", "coms"}
  <2>1. /\ {"body_link_pose_w", "body_com_pose_b"} \cap Quantities = {}
        /\ {"body_link_pose_w", "body_com_pose_b"} \cap Buffers =
               {"body_link_pose_w", "body_com_pose_b"}
    BY <1>1
  <2> QED
    BY <2>1, InputsAre DEF Traced
<1>5. Shows["joint_acc"] = Traced({"qd"})
  BY <1>1, <1>3, InputsAre DEF Shows
<1>6. Shows["body_com_pose_w"] = Traced({"pose", "q", "coms"})
  BY <1>1, <1>4, InputsAre DEF Shows
<1>7. Traced({"qd"}) = {"qd"} /\ Traced({"pose", "q", "coms"}) = {"pose", "q", "coms"}
  BY TracedQuantities DEF Quantities
<1>8. \A b \in {"root_link_pose_w", "joint_pos", "joint_vel", "_previous_joint_vel",
               "body_com_pose_b", "body_link_pose_w", "body_com_jacobian_w",
               "mass_matrix", "gravity_compensation_forces"} :
          Inputs[b] \subseteq Quantities
  BY InputsAre DEF Quantities
<1> QED
  BY <1>1, <1>2, <1>5, <1>6, <1>7, <1>8, InputsAre

\* poses and dynamics, with the centres of mass that a pose is computed from
ConfiguredGroup == Configured \cup {"body_com_pose_b"}

LEMMA ConfiguredIs ==
    ConfiguredGroup = {"body_link_pose_w", "body_com_pose_w", "body_com_jacobian_w",
                       "mass_matrix", "gravity_compensation_forces",
                       "body_com_pose_b"}
BY Domains DEF ConfiguredGroup, Configured, BodyPoses

LEMMA HeldClosed == Closed(Held)
BY Domains, InputsAre DEF Closed, Held, Buffers

LEMMA ConfiguredClosed == Closed(ConfiguredGroup)
BY Domains, InputsAre, ConfiguredIs DEF Closed, Buffers

\* Only the root's link velocity is handed to PhysX for another quantity.
LEMMA Agreement ==
    /\ Agrees(RootLinkPose) /\ Agrees(RootComPose) /\ Agrees(RootComVelocity)
    /\ Agrees(JointState) /\ Agrees(JointPosition) /\ Agrees(JointVelocity)
    /\ Agrees(Coms)
BY InputsAre DEF Agrees, RootLinkPose, RootComPose, RootComVelocity, JointState,
   JointPosition, JointVelocity, Coms

LEMMA HeldCovered ==
    \A w \in {RootLinkPose, RootComPose, RootComVelocity, RootLinkVelocity,
             JointState, JointPosition, JointVelocity, Coms} :
        Covers(w, Held, Quantities)
<1>1. Covers(RootLinkPose, Held, Quantities)
  BY Agreement, ShowsAre DEF Covers, Held, RootLinkPose
<1>2. Covers(RootComPose, Held, Quantities)
  BY Agreement, ShowsAre DEF Covers, Held, RootComPose
<1>3. Covers(RootComVelocity, Held, Quantities)
  BY ShowsAre DEF Covers, Held, RootComVelocity
<1>4. Covers(RootLinkVelocity, Held, Quantities)
  BY ShowsAre DEF Covers, Held, RootLinkVelocity
<1>5. Covers(JointState, Held, Quantities)
  BY Agreement, ShowsAre DEF Covers, Held, JointState
<1>6. Covers(JointPosition, Held, Quantities)
  BY Agreement, ShowsAre DEF Covers, Held, JointPosition
<1>7. Covers(JointVelocity, Held, Quantities)
  BY Agreement, ShowsAre DEF Covers, Held, JointVelocity
<1>8. Covers(Coms, Held, Quantities)
  BY ShowsAre DEF Covers, Held, Coms
<1> QED
  BY <1>1, <1>2, <1>3, <1>4, <1>5, <1>6, <1>7, <1>8

LEMMA ConfiguredCovered ==
    \A w \in {RootLinkPose, RootComPose, RootComVelocity, RootLinkVelocity,
             JointState, JointPosition, JointVelocity, Coms} :
        Covers(w, ConfiguredGroup, {"pose", "q"})
<1> USE ConfiguredIs, ShowsAre
<1>1. Covers(RootLinkPose, ConfiguredGroup, {"pose", "q"})
  BY DEF Covers, RootLinkPose, BodyPoses
<1>2. Covers(RootComPose, ConfiguredGroup, {"pose", "q"})
  BY DEF Covers, RootComPose, BodyPoses
<1>3. Covers(RootComVelocity, ConfiguredGroup, {"pose", "q"})
  BY DEF Covers, RootComVelocity
<1>4. Covers(RootLinkVelocity, ConfiguredGroup, {"pose", "q"})
  BY DEF Covers, RootLinkVelocity
<1>5. Covers(JointState, ConfiguredGroup, {"pose", "q"})
  BY Domains DEF Covers, JointState, BodyPoses
<1>6. Covers(JointPosition, ConfiguredGroup, {"pose", "q"})
  BY Domains DEF Covers, JointPosition, BodyPoses
<1>7. Covers(JointVelocity, ConfiguredGroup, {"pose", "q"})
  BY DEF Covers, JointVelocity
<1>8. Covers(Coms, ConfiguredGroup, {"pose", "q"})
  BY DEF Covers, Coms
<1> QED
  BY <1>1, <1>2, <1>3, <1>4, <1>5, <1>6, <1>7, <1>8

--------------------------------------------------------------------------------
(* The theorems *)

LEMMA NextClean ==
    ASSUME NEW G, NEW K, Closed(G), Clean(lag, G, K), [Next]_vars,
           \A w \in {RootLinkPose, RootComPose, RootComVelocity, RootLinkVelocity,
                    JointState, JointPosition, JointVelocity, Coms} : Covers(w, G, K)
    PROVE  Clean(lag', G, K)
<1>1. CASE Update
  BY <1>1, UpdateClean
<1>2. ASSUME NEW b \in Buffers \ Kept, Get(b)
      PROVE  Clean(lag', G, K)
  BY <1>2, GetClean
<1>3. ASSUME NEW w \in {RootLinkPose, RootComPose, RootComVelocity,
                       RootLinkVelocity, JointState, JointPosition, JointVelocity,
                       Coms},
             Write(w)
      PROVE  Clean(lag', G, K)
  BY <1>3, WriteClean
<1>4. CASE UNCHANGED vars
  BY <1>4 DEF vars
<1> QED
  BY <1>1, <1>2, <1>3, <1>4 DEF Next

LEMMA RefreshedType ==
    ASSUME NEW S \in SUBSET Buffers
    PROVE  Refreshed(S) \subseteq Buffers \ fresh
BY DEF Refreshed, Called

LEMMA LagAfterType ==
    ASSUME TypeOK, NEW S \in SUBSET Buffers
    PROVE  /\ LagAfter(S) \in [Buffers -> SUBSET Quantities]
           /\ \A b \in Buffers \ (fresh \cup Refreshed(S)) : LagAfter(S)[b] = {}
<1>1. ASSUME NEW L \in [Buffers -> SUBSET Quantities]
      PROVE  Refresh(S, L) \in [Buffers -> SUBSET Quantities]
  <2>1. ASSUME NEW b \in Buffers
        PROVE  UNION {L[i] : i \in Inputs[b] \cap Buffers} \subseteq Quantities
    OBVIOUS
  <2> QED
    BY <2>1 DEF Refresh, TypeOK
<1>2. lag \in [Buffers -> SUBSET Quantities]
  BY DEF TypeOK
<1>3. Refresh(S, Refresh(S, lag)) \in [Buffers -> SUBSET Quantities]
  BY <1>1, <1>2
<1>4. \A b \in Buffers \ Refreshed(S) : LagAfter(S)[b] = lag[b]
  BY DEF LagAfter, Refresh
<1> QED
  BY <1>3, <1>4 DEF LagAfter, TypeOK

LEMMA KeptIsABuffer == Kept \subseteq Buffers
BY Domains DEF Kept, Buffers

LEMMA UpdateType == ASSUME Update PROVE TypeOK'
<1>1. {"joint_acc", "joint_vel"} \subseteq Buffers
  BY Domains DEF Buffers
<1>2. lag' \in [Buffers -> SUBSET Quantities] /\ \A b \in Buffers : lag'[b] = {}
  BY DEF Update
<1>3. 0 \in 0..MaxCalls
  BY MaxCallsAssumption
<1> QED
  BY <1>1, <1>2, <1>3, KeptIsABuffer DEF Update, TypeOK

LEMMA CountType ==
    ASSUME TypeOK, calls < MaxCalls, calls' = calls + 1
    PROVE  calls' \in 0..MaxCalls
BY MaxCallsAssumption DEF TypeOK

LEMMA GetType == ASSUME TypeOK, NEW b \in Buffers, Get(b) PROVE TypeOK'
<1>1. Refreshed({b}) \subseteq Buffers
  BY RefreshedType
<1>2. /\ lag' \in [Buffers -> SUBSET Quantities]
      /\ \A c \in Buffers \ fresh' : lag'[c] = {}
  BY LagAfterType DEF Get
<1>3. calls' \in 0..MaxCalls
  BY CountType DEF Get
<1> QED
  BY <1>1, <1>2, <1>3 DEF Get, TypeOK

LEMMA WriteType ==
    ASSUME TypeOK, NEW w, Write(w), w.calls \subseteq Buffers,
           w.changes \subseteq Quantities, w.invalidates \cap Kept = {}
    PROVE  TypeOK'
<1> DEFINE known == (fresh \cup Refreshed(w.calls)) \ w.invalidates
           exact == IF Agrees(w) THEN w.sets ELSE {}
<1>1. known \subseteq Buffers /\ Kept \subseteq known
  BY RefreshedType DEF TypeOK
<1>2. LagAfter(w.calls) \in [Buffers -> SUBSET Quantities]
  BY LagAfterType
<1>3. /\ fresh' = known
      /\ lag' = [b \in Buffers |->
                    IF b \notin known THEN {}
                    ELSE LagAfter(w.calls)[b]
                         \cup (IF b \in exact THEN {} ELSE Shows[b] \cap w.changes)]
  BY DEF Write
<1>4. calls' \in 0..MaxCalls
  BY CountType DEF Write
<1> HIDE DEF known, exact
<1>5. ASSUME NEW b \in Buffers
      PROVE  LagAfter(w.calls)[b]
             \cup (IF b \in exact THEN {} ELSE Shows[b] \cap w.changes)
                  \subseteq Quantities
  BY <1>2
<1>6. lag' \in [Buffers -> SUBSET Quantities]
  BY <1>3, <1>5
<1>7. \A b \in Buffers \ known : lag'[b] = {}
  BY <1>3
<1> QED
  BY <1>1, <1>3, <1>4, <1>6, <1>7 DEF TypeOK

LEMMA WritersTyped ==
    \A w \in {RootLinkPose, RootComPose, RootComVelocity, RootLinkVelocity,
             JointState, JointPosition, JointVelocity, Coms} :
        /\ w.calls \subseteq Buffers
        /\ w.changes \subseteq Quantities
        /\ w.invalidates \cap Kept = {}
<1> DEFINE Typed(w) == /\ w.calls \subseteq Buffers
                       /\ w.changes \subseteq Quantities
                       /\ w.invalidates \cap Kept = {}
<1>1. {"root_link_pose_w", "root_com_pose_w", "root_link_vel_w", "root_com_vel_w",
       "body_com_pose_b", "joint_pos", "joint_vel", "joint_acc"} \subseteq Buffers
  BY Domains DEF Buffers
<1>2. Typed(RootLinkPose) /\ Typed(RootComPose)
  BY <1>1 DEF RootLinkPose, RootComPose, BodyPoses, BodyStates, Kept, Quantities
<1>3. Typed(RootComVelocity) /\ Typed(RootLinkVelocity)
  BY <1>1 DEF RootComVelocity, RootLinkVelocity, Kept, Quantities
<1>4. Typed(JointState) /\ Typed(JointPosition)
  BY <1>1, Domains DEF JointState, JointPosition, BodyPoses, BodyVels, BodyStates,
     Kept, Quantities
<1>5. Typed(JointVelocity) /\ Typed(Coms)
  BY <1>1 DEF JointVelocity, Coms, Kept, Quantities
<1> QED
  BY <1>2, <1>3, <1>4, <1>5

\* Every state is well typed; a buffer whose timestamp is old lags behind nothing,
\* and no writer invalidates the previous joint velocities.
THEOREM Typing == Spec => []TypeOK
<1>1. Init => TypeOK
  <2>1. {"joint_acc", "joint_vel"} \subseteq Buffers
    BY Domains DEF Buffers
  <2> QED
    BY <2>1, KeptIsABuffer, MaxCallsAssumption DEF Init, TypeOK
<1>2. TypeOK /\ [Next]_vars => TypeOK'
  <2> SUFFICES ASSUME TypeOK, [Next]_vars
               PROVE  TypeOK'
    OBVIOUS
  <2>1. CASE Update
    BY <2>1, UpdateType
  <2>2. ASSUME NEW b \in Buffers \ Kept, Get(b)
        PROVE  TypeOK'
    BY <2>2, GetType
  <2>3. ASSUME NEW w \in {RootLinkPose, RootComPose, RootComVelocity,
                         RootLinkVelocity, JointState, JointPosition,
                         JointVelocity, Coms},
               Write(w)
        PROVE  TypeOK'
    BY <2>3, WriteType, WritersTyped
  <2>4. CASE UNCHANGED vars
    BY <2>4 DEF vars, TypeOK
  <2> QED
    BY <2>1, <2>2, <2>3, <2>4 DEF Next
<1> QED
  BY <1>1, <1>2, PTL DEF Spec

\* What the writers exchange with PhysX (root pose, joint positions and
\* velocities, the velocities that the next joint acceleration starts from) is
\* what PhysX holds, however many getters and writers are called between updates.
THEOREM HeldIsCurrent == Spec => []HeldCurrent
<1>1. Init => Clean(lag, Held, Quantities)
  BY HeldClosed DEF Init, Clean, Closed
<1>2. Clean(lag, Held, Quantities) /\ [Next]_vars => Clean(lag, Held, Quantities)'
  BY NextClean, HeldClosed, HeldCovered DEF Clean
<1>3. TypeOK /\ Clean(lag, Held, Quantities) => HeldCurrent
  <2> SUFFICES ASSUME TypeOK, Clean(lag, Held, Quantities), NEW b \in fresh \cap Held
               PROVE  lag[b] = {}
    BY DEF HeldCurrent
  <2>1. lag[b] \subseteq Quantities /\ lag[b] \cap Quantities = {}
    BY DEF TypeOK, Clean
  <2> QED
    BY <2>1
<1> QED
  BY <1>1, <1>2, <1>3, Typing, PTL DEF Spec

\* Bodies' poses, Jacobians, mass matrices and gravity compensation belong to the
\* root pose and the joint positions that the simulation has, however many getters
\* and writers are called between updates.
THEOREM ConfigurationIsCurrent == Spec => []ConfigurationCurrent
<1>1. Init => Clean(lag, ConfiguredGroup, {"pose", "q"})
  BY ConfiguredClosed DEF Init, Clean, Closed
<1>2. Clean(lag, ConfiguredGroup, {"pose", "q"}) /\ [Next]_vars
          => Clean(lag, ConfiguredGroup, {"pose", "q"})'
  BY NextClean, ConfiguredClosed, ConfiguredCovered
     DEF Clean, ConfiguredGroup, Configured
<1>3. Clean(lag, ConfiguredGroup, {"pose", "q"}) => ConfigurationCurrent
  BY DEF Clean, ConfigurationCurrent, ConfiguredGroup
<1> QED
  BY <1>1, <1>2, <1>3, PTL DEF Spec
--------------------------------------------------------------------------------
(* Combined states.  A state is made of parts, a part of leaves (or of what PhysX *)
(* answers), a leaf of what PhysX answers; nothing is made of states.            *)

Parts == {"root_link_pose_w", "root_com_vel_w", "root_link_vel_w", "root_com_pose_w",
          "body_link_pose_w", "body_com_vel_w", "body_link_vel_w", "body_com_pose_w"}
Leaves == {"root_link_pose_w", "root_com_vel_w", "body_com_pose_b",
           "body_link_pose_w", "body_com_vel_w"}

LEMMA Levels ==
    /\ Parts \subseteq Buffers /\ Leaves \subseteq Buffers /\ States \subseteq Buffers
    /\ Buffers \cap Quantities = {}
    /\ \A s \in States : Inputs[s] \subseteq Parts
    /\ \A p \in Parts : Inputs[p] \subseteq Leaves \cup Quantities
    /\ \A j \in Leaves : Inputs[j] \subseteq Quantities
    /\ \A b \in Buffers : Inputs[b] \cap States = {}
<1>1. /\ Parts \subseteq Buffers /\ Leaves \subseteq Buffers /\ States \subseteq Buffers
      /\ Buffers \cap Quantities = {}
  BY Domains DEF Parts, Leaves, Buffers, Quantities
<1>2. /\ \A b \in DOMAIN RootInputs : RootInputs[b] \cap States = {}
      /\ \A p \in DOMAIN RootInputs : RootInputs[p] \subseteq Leaves \cup Quantities
      /\ \A j \in DOMAIN RootInputs \cap Leaves : RootInputs[j] \subseteq Quantities
  BY Domains DEF RootInputs, Leaves, Quantities
<1>3. /\ \A b \in DOMAIN BodyInputs : BodyInputs[b] \cap States = {}
      /\ \A p \in DOMAIN BodyInputs : BodyInputs[p] \subseteq Leaves \cup Quantities
      /\ \A j \in DOMAIN BodyInputs \cap Leaves : BodyInputs[j] \subseteq Quantities
  BY Domains DEF BodyInputs, Leaves, Quantities
<1>4. \A b \in DOMAIN DynamicsInputs : DynamicsInputs[b] \cap States = {}
  BY Domains DEF DynamicsInputs
<1>5. \A b \in DOMAIN JointInputs : JointInputs[b] \cap States = {}
  BY Domains DEF JointInputs
<1>6. \A b \in BaseFrame : BaseInputs[b] \cap States = {}
  BY Domains DEF BaseInputs
<1>7. \A s \in States : StateInputs[s] \subseteq Parts /\ StateInputs[s] \cap States = {}
  BY Domains DEF StateInputs, Parts
<1>8. /\ \A b \in DOMAIN RootInputs : Inputs[b] = RootInputs[b]
      /\ \A b \in DOMAIN BodyInputs : Inputs[b] = BodyInputs[b]
  BY Domains DEF Inputs, Buffers
<1>9. /\ \A b \in DOMAIN DynamicsInputs : Inputs[b] = DynamicsInputs[b]
      /\ \A b \in DOMAIN JointInputs : Inputs[b] = JointInputs[b]
  BY Domains DEF Inputs, Buffers
<1>10. /\ \A b \in BaseFrame : Inputs[b] = BaseInputs[b]
       /\ \A b \in States : Inputs[b] = StateInputs[b]
  BY Domains DEF Inputs, Buffers
<1>11. /\ Parts \subseteq DOMAIN RootInputs \cup DOMAIN BodyInputs
       /\ Leaves \subseteq DOMAIN RootInputs \cup DOMAIN BodyInputs
  BY Domains DEF Parts, Leaves
<1>12. \A b \in Buffers : Inputs[b] \cap States = {}
  BY <1>2, <1>3, <1>4, <1>5, <1>6, <1>7, <1>8, <1>9, <1>10 DEF Buffers
<1> QED
  BY <1>1, <1>2, <1>3, <1>7, <1>8, <1>10, <1>11, <1>12

\* A state shows what its parts show.
LEMMA StateShows ==
    ASSUME NEW s \in States
    PROVE  Shows[s] = UNION {Shows[p] : p \in Inputs[s]}
<1> USE Levels
<1>1. Inputs[s] \subseteq Parts /\ Inputs[s] \cap Quantities = {}
  OBVIOUS
<1>2. ASSUME NEW p \in Parts
      PROVE  Traced(Inputs[p]) \subseteq Quantities /\ Shows[p] = Traced(Inputs[p])
  <2>1. Inputs[p] \cap Buffers \subseteq Leaves
    BY <1>2
  <2>2. Traced(Inputs[p]) \subseteq Quantities
    BY <2>1 DEF Traced
  <2> QED
    BY <2>2, TracedQuantities DEF Shows
<1>3. Traced(Inputs[s]) = UNION {Inputs[p] : p \in Inputs[s]}
  BY <1>1 DEF Traced
<1>4. Traced(UNION {Inputs[p] : p \in Inputs[s]})
          = UNION {Traced(Inputs[p]) : p \in Inputs[s]}
  BY DEF Traced
<1>5. Shows[s] = Traced(Traced(Inputs[s]))
  BY DEF Shows
<1>6. {Shows[p] : p \in Inputs[s]} = {Traced(Inputs[p]) : p \in Inputs[s]}
  BY <1>1, <1>2
<1> QED
  BY <1>3, <1>4, <1>5, <1>6

\* Calling getters leaves each state that is fresh afterwards equal to its parts.
LEMMA LagAfterAgrees ==
    ASSUME TypeOK, StatesAreTheirParts, NEW S \in SUBSET Buffers,
           NEW s \in States, s \in fresh \cup Refreshed(S)
    PROVE  /\ Inputs[s] \subseteq fresh \cup Refreshed(S)
           /\ LagAfter(S)[s] = UNION {LagAfter(S)[p] : p \in Inputs[s]}
<1> USE Levels
<1> DEFINE once == Refresh(S, lag)
<1>1. \A j \in Leaves : once[j] = lag[j]
  <2> TAKE j \in Leaves
  <2>1. Inputs[j] \cap Buffers = {}
    OBVIOUS
  <2>2. j \in Refreshed(S) => lag[j] = {}
    BY DEF Refreshed, TypeOK
  <2> QED
    BY <2>1, <2>2 DEF Refresh
<1>2. \A p \in Parts : LagAfter(S)[p] = once[p]
  <2> TAKE p \in Parts
  <2>1. Inputs[p] \cap Buffers \subseteq Leaves
    OBVIOUS
  <2>2. {once[i] : i \in Inputs[p] \cap Buffers} = {lag[i] : i \in Inputs[p] \cap Buffers}
    BY <1>1, <2>1
  <2>3. LagAfter(S)[p] = IF p \in Refreshed(S)
                         THEN UNION {once[i] : i \in Inputs[p] \cap Buffers}
                         ELSE lag[p]
    BY DEF LagAfter, Refresh
  <2>4. once[p] = IF p \in Refreshed(S)
                  THEN UNION {lag[i] : i \in Inputs[p] \cap Buffers}
                  ELSE lag[p]
    BY DEF Refresh
  <2> HIDE DEF once
  <2>5. UNION {once[i] : i \in Inputs[p] \cap Buffers}
            = UNION {lag[i] : i \in Inputs[p] \cap Buffers}
    BY <2>2
  <2>6. CASE p \in Refreshed(S)
    BY <2>3, <2>4, <2>5, <2>6, Zenon
  <2>7. CASE p \notin Refreshed(S)
    BY <2>3, <2>4, <2>7, Zenon
  <2> QED
    BY <2>6, <2>7
<1>3. Inputs[s] \subseteq Parts /\ Inputs[s] \cap Buffers = Inputs[s]
  OBVIOUS
<1>4. LagAfter(S)[s] = IF s \in Refreshed(S) THEN UNION {once[p] : p \in Inputs[s]}
                       ELSE lag[s]
  BY <1>3 DEF LagAfter, Refresh
<1> HIDE DEF once
<1>5. CASE s \in Refreshed(S)
  <2>1. s \notin fresh /\ s \in S
    BY <1>5 DEF Refreshed, Called
  <2>2. Inputs[s] \subseteq Called(S)
    BY <2>1, <1>3 DEF Called
  <2>3. Inputs[s] \subseteq fresh \cup Refreshed(S)
    BY <2>2 DEF Refreshed, Called
  <2>4. {once[p] : p \in Inputs[s]} = {LagAfter(S)[p] : p \in Inputs[s]}
    BY <1>2, <1>3
  <2> QED
    BY <2>3, <2>4, <1>4, <1>5
<1>6. CASE s \notin Refreshed(S)
  <2>1. s \in fresh /\ Inputs[s] \subseteq fresh
    BY <1>6 DEF StatesAreTheirParts
  <2>2. \A p \in Inputs[s] : LagAfter(S)[p] = lag[p]
    BY <2>1, <1>3 DEF LagAfter, Refresh, Refreshed
  <2>3. lag[s] = UNION {lag[p] : p \in Inputs[s]}
    BY <2>1 DEF StatesAreTheirParts
  <2>4. {lag[p] : p \in Inputs[s]} = {LagAfter(S)[p] : p \in Inputs[s]}
    BY <2>2
  <2> QED
    BY <2>1, <2>3, <2>4, <1>4, <1>6
<1> QED
  BY <1>5, <1>6

\* A writer invalidates a state, or touches neither it nor its parts.
Uniform(w) ==
    \A s \in States :
        /\ s \notin w.sets
        /\ s \in w.invalidates \/ Inputs[s] \cap (w.sets \cup w.invalidates) = {}

LEMMA WritersUniform ==
    \A w \in {RootLinkPose, RootComPose, RootComVelocity, RootLinkVelocity,
             JointState, JointPosition, JointVelocity, Coms} : Uniform(w)
<1>1. /\ Inputs["root_state_w"] = {"root_link_pose_w", "root_com_vel_w"}
      /\ Inputs["root_link_state_w"] = {"root_link_pose_w", "root_link_vel_w"}
      /\ Inputs["root_com_state_w"] = {"root_com_pose_w", "root_com_vel_w"}
      /\ Inputs["body_state_w"] = {"body_link_pose_w", "body_com_vel_w"}
      /\ Inputs["body_link_state_w"] = {"body_link_pose_w", "body_link_vel_w"}
      /\ Inputs["body_com_state_w"] = {"body_com_pose_w", "body_com_vel_w"}
  <2>1. \A b \in States : Inputs[b] = StateInputs[b]
    BY Domains DEF Inputs, Buffers
  <2> QED
    BY <2>1, Domains DEF StateInputs
<1>2. Uniform(RootLinkPose)
  BY <1>1, Domains DEF Uniform, RootLinkPose, BodyPoses, BodyStates
<1>3. Uniform(RootComPose)
  BY <1>1, Domains DEF Uniform, RootComPose, BodyPoses, BodyStates
<1>4. Uniform(RootComVelocity)
  BY <1>1, Domains DEF Uniform, RootComVelocity
<1>5. Uniform(RootLinkVelocity)
  BY <1>1, Domains DEF Uniform, RootLinkVelocity
<1>6. Uniform(JointState)
  BY <1>1, Domains DEF Uniform, JointState, BodyPoses, BodyVels, BodyStates
<1>7. Uniform(JointPosition)
  BY <1>1, Domains DEF Uniform, JointPosition, BodyPoses, BodyVels, BodyStates
<1>8. Uniform(JointVelocity)
  BY <1>1, Domains DEF Uniform, JointVelocity
<1>9. Uniform(Coms)
  BY <1>1, Domains DEF Uniform, Coms
<1> QED
  BY <1>2, <1>3, <1>4, <1>5, <1>6, <1>7, <1>8, <1>9

LEMMA WriteAgrees ==
    ASSUME TypeOK, StatesAreTheirParts, NEW w, Write(w), Uniform(w),
           w.calls \subseteq Buffers
    PROVE  StatesAreTheirParts'
<1> DEFINE N == LagAfter(w.calls)
           known == (fresh \cup Refreshed(w.calls)) \ w.invalidates
           exact == IF Agrees(w) THEN w.sets ELSE {}
           More(b) == IF b \in exact THEN {} ELSE Shows[b] \cap w.changes
<1>1. /\ fresh' = known
      /\ \A b \in known \cap Buffers : lag'[b] = N[b] \cup More(b)
  BY DEF Write
<1> SUFFICES ASSUME NEW s \in known, s \in States
             PROVE  /\ Inputs[s] \subseteq known
                    /\ lag'[s] = UNION {lag'[p] : p \in Inputs[s]}
  BY <1>1 DEF StatesAreTheirParts
<1>2. /\ Inputs[s] \subseteq fresh \cup Refreshed(w.calls)
      /\ N[s] = UNION {N[p] : p \in Inputs[s]}
  BY LagAfterAgrees
<1>3. /\ s \notin w.sets
      /\ Inputs[s] \cap w.sets = {} /\ Inputs[s] \cap w.invalidates = {}
  BY DEF Uniform
<1>4. Inputs[s] \subseteq known /\ Inputs[s] \subseteq Buffers /\ s \in Buffers
  BY <1>2, <1>3, Levels
<1>5. /\ More(s) = Shows[s] \cap w.changes
      /\ \A p \in Inputs[s] : More(p) = Shows[p] \cap w.changes
  BY <1>3
<1>6. Shows[s] = UNION {Shows[p] : p \in Inputs[s]}
  BY StateShows
<1> HIDE DEF N, known, exact, More
<1>7. /\ lag'[s] = N[s] \cup (Shows[s] \cap w.changes)
      /\ \A p \in Inputs[s] : lag'[p] = N[p] \cup (Shows[p] \cap w.changes)
  BY <1>1, <1>4, <1>5
<1>8. UNION {lag'[p] : p \in Inputs[s]}
          = (UNION {N[p] : p \in Inputs[s]})
            \cup ((UNION {Shows[p] : p \in Inputs[s]}) \cap w.changes)
  <2>1. {lag'[p] : p \in Inputs[s]}
            = {N[p] \cup (Shows[p] \cap w.changes) : p \in Inputs[s]}
    BY <1>7
  <2>2. UNION {N[p] \cup (Shows[p] \cap w.changes) : p \in Inputs[s]}
            = (UNION {N[p] : p \in Inputs[s]})
              \cup ((UNION {Shows[p] : p \in Inputs[s]}) \cap w.changes)
    OBVIOUS
  <2> QED
    BY <2>1, <2>2
<1> QED
  BY <1>2, <1>4, <1>6, <1>7, <1>8

\* A combined state (the deprecated properties) shows the values of the properties
\* it combines, however many getters and writers are called between updates.
THEOREM StatesAgree == Spec => []StatesAreTheirParts
<1>1. Init => StatesAreTheirParts
  BY Domains DEF Init, StatesAreTheirParts, Kept
<1>2. TypeOK /\ StatesAreTheirParts /\ [Next]_vars => StatesAreTheirParts'
  <2> SUFFICES ASSUME TypeOK, StatesAreTheirParts, [Next]_vars
               PROVE  StatesAreTheirParts'
    OBVIOUS
  <2>1. CASE Update
    BY <2>1, Domains DEF Update, StatesAreTheirParts, Kept
  <2>2. ASSUME NEW b \in Buffers \ Kept, Get(b)
        PROVE  StatesAreTheirParts'
    <3>1. /\ fresh' = fresh \cup Refreshed({b})
          /\ lag' = LagAfter({b})
      BY <2>2 DEF Get
    <3>2. \A s \in States \cap fresh' :
              /\ Inputs[s] \subseteq fresh'
              /\ lag'[s] = UNION {lag'[p] : p \in Inputs[s]}
      <4> SUFFICES ASSUME NEW s \in States, s \in fresh \cup Refreshed({b})
                   PROVE  /\ Inputs[s] \subseteq fresh \cup Refreshed({b})
                          /\ LagAfter({b})[s] = UNION {LagAfter({b})[p] : p \in Inputs[s]}
        BY <3>1
      <4>1. {b} \in SUBSET Buffers
        OBVIOUS
      <4> QED
        BY <4>1, LagAfterAgrees
    <3> QED
      BY <3>2 DEF StatesAreTheirParts
  <2>3. ASSUME NEW w \in {RootLinkPose, RootComPose, RootComVelocity,
                         RootLinkVelocity, JointState, JointPosition,
                         JointVelocity, Coms},
               Write(w)
        PROVE  StatesAreTheirParts'
    BY <2>3, WriteAgrees, WritersUniform, WritersTyped
  <2>4. CASE UNCHANGED vars
    BY <2>4 DEF vars, StatesAreTheirParts
  <2> QED
    BY <2>1, <2>2, <2>3, <2>4 DEF Next
<1> QED
  BY <1>1, <1>2, Typing, PTL DEF Spec

--------------------------------------------------------------------------------
(* Newton: the three marks are kept by different writers and cleared by different *)
(* readers; what makes each property inductive is Covered, that no mark is dropped *)
(* while the debt it stands for is outstanding.                                   *)

\* Every pose that lags is marked for eval_fk and for its world's reset, and
\* every write since the last step is marked for its world's reset.
Covered ==
    /\ stale \subseteq fkMask
    /\ \A p \in stale \cup written : p[2] \in worldMask

KinematicsInv ==
    /\ KinematicsTypeOK
    /\ ReadsCurrent
    /\ Covered
    /\ WritesReachSolver

-----------------------------------------------------------------------------
\* The writers that name the written worlds keep every mark.
LEMMA MovedDirtiedKeeps ==
    ASSUME NEW a \in Assets, NEW E \in SUBSET Envs, KinematicsInv, Moved(a, E),
           Dirtied(a, E) \/ AllDirtied,
           UNCHANGED <<solver, pipeline, simTimestamp, lost>>
    PROVE  KinematicsInv'
<1> USE DEF KinematicsInv
<1>1. {a} \X E \subseteq Pairs /\ a \in Assets
    BY DEF Pairs
<1>2. \A b \in Timestamped : b \in Assets /\ simTimestamp[b] \in Nat
    BY TimeAssumption DEF Timestamped, Assets, KinematicsTypeOK
<1>3. /\ fkTimestamp' \in [Timestamped -> {-1} \cup 0 .. MaxTime]
      /\ \A b \in Timestamped : fkTimestamp'[b] \in {-1, simTimestamp[b]}
    <2>1. fkTimestamp' = [b \in Timestamped |->
                             IF b = a THEN -1 ELSE fkTimestamp[b]]
        BY DEF Moved
    <2>2. \A b \in Timestamped : fkTimestamp[b] \in {-1, simTimestamp[b]}
        BY DEF KinematicsTypeOK
    <2>3. fkTimestamp \in [Timestamped -> {-1} \cup 0 .. MaxTime]
        BY DEF KinematicsTypeOK
    <2> QED BY <2>1, <2>2, <2>3
<1>4. KinematicsTypeOK'
    <2>1. worldMask' \subseteq Envs /\ fkMask' \subseteq Pairs
        BY <1>1 DEF Dirtied, AllDirtied, KinematicsTypeOK
    <2>2. stale' \subseteq Pairs /\ written' \subseteq Pairs
        BY <1>1 DEF Moved, KinematicsTypeOK
    <2> QED BY <1>3, <2>1, <2>2 DEF KinematicsTypeOK, Pairs, Assets, Timestamped
<1>5. ReadsCurrent'
    <2> SUFFICES ASSUME NEW b \in Timestamped, NEW w \in Envs,
                        <<b, w>> \in stale'
                 PROVE  fkTimestamp'[b] < simTimestamp[b]
        BY DEF ReadsCurrent, NeedsForward, Timestamped
    <2>1. CASE b = a
        BY <1>2, <2>1 DEF Moved
    <2>2. CASE b # a
        <3>1. <<b, w>> \in stale
            BY <2>2 DEF Moved
        <3> QED BY <2>2, <3>1 DEF Moved, ReadsCurrent, NeedsForward
    <2> QED BY <2>1, <2>2
<1>6. Covered'
    BY <1>1 DEF Moved, Dirtied, AllDirtied, Covered, Pairs, KinematicsTypeOK
<1> QED BY <1>4, <1>5, <1>6 DEF WritesReachSolver

\* A step that consumes the masks misses no write.
LEMMA NothingMissed ==
    ASSUME KinematicsInv
    PROVE  Missed = {}
<1>1. pipeline => PosesAtSolver = {}
    BY DEF PosesAtSolver, EvalFk, SolverReset, KinematicsInv, Covered
<1>2. \A p \in stale \cup written : p \in Pairs /\ p[2] \in worldMask
    BY DEF KinematicsInv, Covered, KinematicsTypeOK
<1>3. \A p \in stale \cup written : p \in In(worldMask)
    BY <1>2 DEF In, Pairs
<1>4. solver = "kamino" => PosesAtSolver = {}
    BY <1>3 DEF PosesAtSolver, EvalFk, SolverReset
<1> QED BY <1>1, <1>3, <1>4 DEF Missed

LEMMA UpdateKeeps ==
    ASSUME NEW a \in Assets, KinematicsInv, UpdateData(a)
    PROVE  KinematicsInv'
<1> USE DEF KinematicsInv
<1>1. \A b \in Timestamped : b \in Assets
    BY DEF Timestamped, Assets
<1>2. /\ simTimestamp' \in [Assets -> 0 .. MaxTime]
      /\ simTimestamp' = [simTimestamp EXCEPT ![a] = simTimestamp[a] + 1]
      /\ \A b \in Assets : simTimestamp[b] \in Nat
    BY TimeAssumption DEF UpdateData, KinematicsTypeOK
<1>3. \A b \in Timestamped :
         /\ fkTimestamp[b] = -1 =>
               /\ fkTimestamp'[b] = -1
               /\ fkTimestamp'[b] < simTimestamp'[b]
         /\ fkTimestamp[b] # -1 => fkTimestamp'[b] = simTimestamp'[b]
    <2> TAKE b \in Timestamped
    <2>1. fkTimestamp[b] \in {-1, simTimestamp[b]} /\ simTimestamp[b] \in Nat
        BY <1>1, <1>2 DEF KinematicsTypeOK
    <2>2. fkTimestamp'[b] = IF b = a /\ fkTimestamp[b] >= 0
                               THEN simTimestamp[a] + 1 ELSE fkTimestamp[b]
        BY DEF UpdateData
    <2>3. simTimestamp'[b] = (IF b = a THEN simTimestamp[a] + 1
                                       ELSE simTimestamp[b])
        BY <1>1, <1>2 DEF KinematicsTypeOK
    <2> QED BY <2>1, <2>2, <2>3
<1>4. fkTimestamp' \in [Timestamped -> {-1} \cup 0 .. MaxTime]
    <2>1. \A b \in Timestamped : fkTimestamp'[b] \in {-1} \cup 0 .. MaxTime
        BY <1>1, <1>2, <1>3
    <2> QED BY <2>1 DEF UpdateData
<1>5. KinematicsTypeOK'
    BY <1>2, <1>3, <1>4 DEF UpdateData, KinematicsTypeOK, Pairs, Assets, Timestamped
<1>6. ReadsCurrent'
    <2> SUFFICES ASSUME NEW b \in Timestamped, NEW w \in Envs, <<b, w>> \in stale
                 PROVE  fkTimestamp'[b] < simTimestamp'[b]
        BY DEF ReadsCurrent, NeedsForward, UpdateData, Timestamped
    <2>1. fkTimestamp[b] < simTimestamp[b] /\ simTimestamp[b] \in Nat
        BY <1>1, <1>2 DEF ReadsCurrent, NeedsForward
    <2>2. fkTimestamp[b] = -1
        BY <2>1 DEF KinematicsTypeOK
    <2> QED BY <2>2, <1>3
<1> QED BY <1>5, <1>6 DEF UpdateData, Covered, WritesReachSolver

LEMMA NextKeeps == KinematicsInv /\ [KinematicsNext]_kinematicsVars => KinematicsInv'
<1> SUFFICES ASSUME KinematicsInv, [KinematicsNext]_kinematicsVars PROVE KinematicsInv'
    OBVIOUS
<1>1. ASSUME NEW a \in Assets, NEW E \in (SUBSET Envs) \ {{}},
             \/ WritePose(a, E) \/ WriteJointPosition(a, E)
             \/ WriteJointState(a, E)
      PROVE  KinematicsInv'
    BY <1>1, MovedDirtiedKeeps DEF WritePose, WriteJointPosition, WriteJointState
<1>2. ASSUME NEW a \in Assets, NEW E \in (SUBSET Envs) \ {{}}, WriteVelocity(a, E)
      PROVE  KinematicsInv'
    <2>1. {a} \X E \subseteq Pairs
        BY DEF Pairs
    <2>2. KinematicsTypeOK'
        BY <1>2, <2>1 DEF KinematicsInv, WriteVelocity, Dirtied, KinematicsTypeOK, Pairs,
                          Assets,
                          Timestamped
    <2>3. Covered'
        BY <1>2, <2>1 DEF KinematicsInv, WriteVelocity, Dirtied, Covered
    <2> QED BY <1>2, <2>2, <2>3 DEF KinematicsInv, WriteVelocity, ReadsCurrent,
                                    NeedsForward, Timestamped, WritesReachSolver
<1>3. ASSUME NEW a \in Timestamped, Read(a)
      PROVE  KinematicsInv'
    <2>1. stale' = {}
        BY <1>3 DEF Read, EvalFk, KinematicsInv, KinematicsTypeOK
    <2>2. a \in Assets
        BY DEF Timestamped, Assets
    <2>3. fkTimestamp' = [fkTimestamp EXCEPT ![a] = simTimestamp[a]]
        BY <1>3 DEF Read
    <2>4. KinematicsTypeOK'
        BY <1>3, <2>1, <2>2, <2>3 DEF Read, KinematicsInv, KinematicsTypeOK, Pairs, Assets,
                                      Timestamped
    <2> QED BY <1>3, <2>1, <2>4 DEF Read, KinematicsInv, ReadsCurrent, Covered,
                                    WritesReachSolver
<1>4. ASSUME NEW a \in Assets, UpdateData(a)
      PROVE  KinematicsInv'
    BY <1>4, UpdateKeeps
<1>5. CASE Forward
    <2>1. stale' = {}
        BY <1>5 DEF Forward, EvalFk, KinematicsInv, KinematicsTypeOK
    <2> QED BY <1>5, <2>1 DEF Forward, KinematicsInv, KinematicsTypeOK, ReadsCurrent, Covered,
                              WritesReachSolver, Pairs, Assets, Timestamped
<1>6. CASE Step
    <2>1. lost' = {}
        BY <1>6, NothingMissed DEF Step
    <2> QED BY <1>6, <2>1 DEF Step, KinematicsInv, KinematicsTypeOK, ReadsCurrent, Covered,
                              WritesReachSolver, Pairs, Assets, Timestamped
<1>7. CASE StartSimulation
    BY <1>7 DEF StartSimulation, KinematicsInv, KinematicsTypeOK, ReadsCurrent, Covered,
                WritesReachSolver, Pairs, Assets, Timestamped
<1>8. CASE UNCHANGED kinematicsVars
    BY <1>8 DEF kinematicsVars, KinematicsInv, KinematicsTypeOK, ReadsCurrent, NeedsForward,
                Covered,
                WritesReachSolver, Pairs, Assets, Timestamped
<1> QED BY <1>1, <1>2, <1>3, <1>4, <1>5, <1>6, <1>7, <1>8 DEF KinematicsNext

LEMMA InitHolds == KinematicsInit => KinematicsInv
<1> SUFFICES ASSUME KinematicsInit PROVE KinematicsInv
    OBVIOUS
<1>1. pipeline \in BOOLEAN
    BY DEF KinematicsInit
<1>2. /\ simTimestamp \in [Assets -> 0 .. MaxTime]
      /\ fkTimestamp \in [Timestamped -> {-1} \cup 0 .. MaxTime]
      /\ \A a \in Timestamped : fkTimestamp[a] = simTimestamp[a]
    BY TimeAssumption DEF KinematicsInit, Timestamped, Assets
<1> QED BY <1>1, <1>2 DEF KinematicsInit, KinematicsInv, KinematicsTypeOK, ReadsCurrent,
                          Covered,
                          WritesReachSolver

LEMMA InvariantHolds == KinematicsSpec => []KinematicsInv
BY InitHolds, NextKeeps, PTL DEF KinematicsSpec

-----------------------------------------------------------------------------
\* Timestamps are invalid or current and the masks name worlds and articulations
\* of the model.
THEOREM KinematicsTypeCorrect == KinematicsSpec => []KinematicsTypeOK
<1>1. KinematicsInv => KinematicsTypeOK
    BY DEF KinematicsInv
<1> QED BY <1>1, InvariantHolds, PTL

\* Body poses returned by a getter are current, whatever was written, read,
\* stepped or restarted before, by whichever asset.
THEOREM GettersCurrent == KinematicsSpec => []ReadsCurrent
<1>1. KinematicsInv => ReadsCurrent
    BY DEF KinematicsInv
<1> QED BY <1>1, InvariantHolds, PTL

\* No physics step runs past a write of poses or joint positions, for every
\* solver, with and without the collision pipeline.
THEOREM NoWriteLost == KinematicsSpec => []WritesReachSolver
<1>1. KinematicsInv => WritesReachSolver
    BY DEF KinematicsInv
<1> QED BY <1>1, InvariantHolds, PTL
================================================================================
