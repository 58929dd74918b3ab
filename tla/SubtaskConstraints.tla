--------------------------- MODULE SubtaskConstraints ---------------------------
(* One attempt of DataGenerator.generate for a robot with several end effectors. *)
(*                                                                               *)
(* Every end effector works through its list of subtasks, one waypoint of the    *)
(* current trajectory per environment step, and the runtime subtask constraints  *)
(* hold it back or release it.  One iteration of the while loop of generate() is *)
(* three passes over the end effectors:                                          *)
(*   plan       give a new trajectory to those at the start of a subtask,        *)
(*   constrain  apply the constraints and pick the waypoint to execute,          *)
(*   advance    count the executed step and complete subtasks.                   *)
(* An action of this module is one end effector's turn in one pass.  Poses are   *)
(* abstracted away; a trajectory is its length.                                  *)
EXTENDS Integers, SequencesExt

CONSTANTS
    Eefs,            \* end effectors
    KeyOrders,       \* their order in subtask_configs: the ones explored
    SortedOrder,     \* their order by name
    NumSubtasks,     \* number of subtasks of each end effector
    ConstraintSets,  \* the task_constraint_configs explored
    Segments,        \* lengths of a source subtask segment
    Leads,           \* waypoints put before the segment by interpolation
    Modes,           \* "plain", "skillgen" (use_skillgen) and "navigation"
                     \* (use_navigation_controller) that are explored
    MotionLengths,   \* lengths of a motion-planned transition
    Body,            \* the end effector that carries the navigation subtask
    MaxLength        \* bound: a trajectory extended by waiting grows up to here

\* subtask_configs is a dictionary: it names every end effector once
ASSUME OrderAssumption ==
    \A order \in KeyOrders \cup {SortedOrder} :
      order \in Seq(Eefs) /\ ToSet(order) = Eefs /\ IsInjective(order)
ASSUME SameLengthAssumption == \A order \in KeyOrders : Len(order) = Len(SortedOrder)
ASSUME SubtasksAssumption == NumSubtasks \in [Eefs -> Nat \ {0}]
ASSUME LengthsAssumption ==
    /\ Segments \subseteq Nat \ {0}
    /\ Leads \subseteq Nat
    /\ MotionLengths \subseteq Nat \ {0}
    /\ MaxLength \in Nat \ {0, 1}
ASSUME ModesAssumption ==
    /\ Modes \subseteq {"plain", "skillgen", "navigation"}
    /\ Body \in Eefs

VARIABLES
    key_order,      \* of subtask_configs
    mode,           \* fixed for the run
    constraints,    \* the configured constraints of this run
    segment, lead,  \* lengths drawn for every subtask
    rules,          \* runtime_subtask_constraints_dict
    pass, turn,     \* which pass, and whose turn in it
    subtask,        \* current_eef_subtask_indices
    step,           \* current_eef_subtask_step_indices
    length,         \* len(current_eef_subtask_trajectories[eef])
    resume,         \* next_eef_subtask_indices_after_motion
    subtasks_done,  \* eef_subtasks_done
    nav,            \* navigation state read after the step, and its last value
    crash           \* the Python exception that ended the attempt

inputs  == <<key_order, mode, constraints, segment, lead>>
eefVars == <<subtask, step, length, resume, subtasks_done>>
vars == <<inputs, rules, pass, turn, eefVars, nav, crash>>

NONE == -2          \* Python's None for a step or subtask index
Transit == -1       \* current_eef_subtask_indices during a planned motion

Keys == UNION {{<<e, i>> : i \in 0 .. NumSubtasks[e] - 1} : e \in Eefs}

Constraint ==
    [type : {"sequential", "coordination"}, first : Keys, second : Keys,
     min_time_diff : Int, sync_start : BOOLEAN]

\* a constraint ties subtasks of two end effectors together
ASSUME ConstraintsAssumption ==
    \A cs \in ConstraintSets :
      /\ cs \in Seq(Constraint)
      /\ \A i \in DOMAIN cs : cs[i].first[1] # cs[i].second[1]

\* waypoints of the executed trajectory of a subtask: the first subtask also
\* executes the first robot pose of its segment
TrajectoryLength(key) ==
    segment[key] + lead[key] + (IF key[2] = 0 THEN 1 ELSE 0)

--------------------------------------------------------------------------------
(* The runtime rules *)

Rule(type, partner, c) ==
    [type |-> type, partner |-> partner,
     min_time_diff |-> c.min_time_diff, sync_start |-> c.sync_start,
     fulfilled |-> FALSE, finished |-> FALSE, synchronous_steps |-> 0]

\* generate_runtime_subtask_constraints for one configured constraint
RuntimeRules(c) ==
    IF c.type = "sequential"
      THEN [k \in {c.first, c.second} |->
              IF k = c.first THEN Rule("former", c.second, c)
                             ELSE Rule("latter", c.first, c)]
      ELSE [k \in {c.first, c.second} |->
              IF k = c.second THEN Rule("coordination", c.first, c)
                              ELSE Rule("coordination", c.second, c)]

\* dict.update for one constraint after the other: the last that names a subtask
\* makes its rule
Named(c) == {c.first, c.second}
InitialRules(cs) ==
    [k \in UNION {Named(cs[i]) : i \in DOMAIN cs} |->
        RuntimeRules(cs[Max({i \in DOMAIN cs : k \in Named(cs[i])})])[k]]

Init ==
    /\ key_order \in KeyOrders
    /\ mode \in Modes
    /\ constraints \in ConstraintSets
    /\ segment \in [Keys -> Segments]
    /\ lead \in [Keys -> Leads]
    /\ rules = InitialRules(constraints)
    /\ pass = "plan" /\ turn = 1
    /\ subtask = [e \in Eefs |-> 0]
    /\ step = [e \in Eefs |-> NONE]
    /\ length = [e \in Eefs |-> 0]
    /\ resume = [e \in Eefs |-> NONE]
    /\ subtasks_done = [e \in Eefs |-> FALSE]
    /\ nav = [was |-> FALSE, is |-> FALSE, reached |-> FALSE, processed |-> FALSE]
    /\ crash = "none"

--------------------------------------------------------------------------------
(* plan *)

Turn(p, order, e) == pass = p /\ turn <= Len(order) /\ order[turn] = e
NextTurn == turn' = turn + 1 /\ UNCHANGED pass

Key(e) == <<e, subtask[e]>>
HasRule(e) == Key(e) \in DOMAIN rules

StillExecuting(e) ==
    /\ Turn("plan", key_order, e)
    /\ step[e] # NONE
    /\ NextTurn
    /\ UNCHANGED <<inputs, rules, eefVars, nav, crash>>

Raise(exception) ==
    /\ pass' = "crashed"
    /\ crash' = exception
    /\ UNCHANGED <<inputs, rules, turn, eefVars, nav>>

\* generate_eef_subtask_trajectory fixes how many steps a coordinated subtask
\* shares with its partner
MeasuredRules(e) ==
    IF HasRule(e) /\ rules[Key(e)].type = "coordination"
      THEN LET own == segment[Key(e)]
               other == segment[rules[Key(e)].partner]
           IN [rules EXCEPT ![Key(e)].synchronous_steps =
                                IF own < other THEN own ELSE other]
      ELSE rules

\* the partner's rule was replaced by one of another kind: its fields are missing
PartnerLost(e) ==
    /\ HasRule(e) /\ rules[Key(e)].type = "coordination"
    /\ rules[rules[Key(e)].partner].type # "coordination"

BeginSubtask(e) ==
    /\ Turn("plan", key_order, e)
    /\ step[e] = NONE /\ resume[e] = NONE
    /\ ~PartnerLost(e)
    /\ rules' = MeasuredRules(e)
    /\ step' = [step EXCEPT ![e] = 0]
    /\ IF mode = "skillgen"
         THEN /\ resume' = [resume EXCEPT ![e] = subtask[e]]
              /\ subtask' = [subtask EXCEPT ![e] = Transit]
              /\ \E n \in MotionLengths : length' = [length EXCEPT ![e] = n]
         ELSE /\ length' = [length EXCEPT ![e] = TrajectoryLength(Key(e))]
              /\ UNCHANGED <<subtask, resume>>
    /\ NextTurn
    /\ UNCHANGED <<inputs, subtasks_done, nav, crash>>

BeginSubtaskFails(e) ==
    /\ Turn("plan", key_order, e)
    /\ step[e] = NONE /\ resume[e] = NONE
    /\ PartnerLost(e)
    /\ Raise("KeyError")

\* the planned transition has been executed: go on with the subtask it leads to
ResumeSubtask(e) ==
    /\ Turn("plan", key_order, e)
    /\ step[e] = NONE /\ resume[e] # NONE
    /\ subtask' = [subtask EXCEPT ![e] = resume[e]]
    /\ length' = [length EXCEPT ![e] = TrajectoryLength(<<e, resume[e]>>)]
    /\ step' = [step EXCEPT ![e] = 0]
    /\ resume' = [resume EXCEPT ![e] = NONE]
    /\ NextTurn
    /\ UNCHANGED <<inputs, rules, subtasks_done, nav, crash>>

\* skillgen: no motion plan, the attempt is given up
PlanningFails(e) ==
    /\ mode = "skillgen"
    /\ Turn("plan", key_order, e)
    /\ step[e] = NONE /\ resume[e] = NONE
    /\ ~PartnerLost(e)
    /\ rules' = MeasuredRules(e)
    /\ pass' = "aborted"
    /\ UNCHANGED <<inputs, turn, eefVars, nav, crash>>

PlanDone ==
    /\ pass = "plan" /\ turn > Len(key_order)
    /\ pass' = "constrain" /\ turn' = 1
    /\ UNCHANGED <<inputs, rules, eefVars, nav, crash>>
--------------------------------------------------------------------------------
(* constrain *)

Back(n) == IF n > 0 THEN n - 1 ELSE n

Is(e, type) == HasRule(e) /\ rules[Key(e)].type = type
Partner(e) == rules[Key(e)].partner

\* Mutant: the latter subtask is held one step too late.
PrecedesLate(e) ==
    /\ Is(e, "latter")
    /\ ~rules[Key(e)].fulfilled
    /\ \/ rules[Key(e)].min_time_diff = -1
       \/ step[e] > length[e] - rules[Key(e)].min_time_diff

\* a sequential latter subtask waits for its former one
Precedes(e) ==
    /\ Is(e, "latter")
    /\ ~rules[Key(e)].fulfilled
    /\ \/ rules[Key(e)].min_time_diff = -1
       \/ step[e] >= length[e] - rules[Key(e)].min_time_diff

\* coordination_synchronize_start: the partner is not yet at its subtask
AwaitsStart(e) ==
    /\ Is(e, "coordination")
    /\ rules[Key(e)].sync_start
    /\ subtask[Partner(e)[1]] < Partner(e)[2]

\* Mutant: an end effector is at the rendezvous wherever it is.
AtRendezvousAnywhere(e) == Is(e, "coordination") /\ ~AwaitsStart(e)

AtRendezvous(e) ==
    /\ Is(e, "coordination") /\ ~AwaitsStart(e)
    /\ step[e] >= length[e] - rules[Key(e)].synchronous_steps

ConstrainedStep(e) ==
    IF AwaitsStart(e) THEN 0
    ELSE IF Precedes(e) \/ (AtRendezvous(e) /\ ~rules[Key(e)].fulfilled)
      THEN Back(step[e])
      ELSE step[e]

\* apply the constraint of the current subtask and look the waypoint up
Constrain(e) ==
    /\ Turn("constrain", SortedOrder, e)
    /\ step' = [step EXCEPT ![e] = ConstrainedStep(e)]
    /\ rules' = IF AtRendezvous(e)
                  THEN [rules EXCEPT ![Partner(e)].fulfilled = TRUE]
                  ELSE rules
    /\ NextTurn
    /\ UNCHANGED <<inputs, subtask, length, resume, subtasks_done, nav, crash>>

\* the waypoints of all end effectors are executed in one environment step; the
\* navigation state is read when the step is over
Execute ==
    /\ pass = "constrain" /\ turn > Len(SortedOrder)
    /\ pass' = "advance" /\ turn' = 1
    /\ \E is, reached \in (IF mode = "navigation" THEN BOOLEAN ELSE {FALSE}) :
          nav' = [nav EXCEPT !.is = is, !.reached = reached, !.processed = FALSE]
    /\ UNCHANGED <<inputs, rules, eefVars, crash>>

--------------------------------------------------------------------------------
(* advance *)

\* the navigation controller rewrites the step indices of all end effectors:
\* repeat the last waypoint of the body while it navigates, or skip to the end of
\* its subtask once it has stopped
AtLastBodyStep(s) == s[Body] = length[Body] - 1

RepeatsBodyStep(s) ==
    /\ mode = "navigation" /\ ~nav.processed
    /\ AtLastBodyStep(s) /\ nav.is /\ ~nav.reached

SkipsBodySteps(s) ==
    /\ mode = "navigation" /\ ~nav.processed
    /\ ~AtLastBodyStep(s) /\ nav.was /\ ~nav.is

Navigated(s) ==
    IF RepeatsBodyStep(s) THEN [e \in Eefs |-> s[e] - 1]
    ELSE IF SkipsBodySteps(s)
      THEN LET skip == length[Body] - (s[Body] + 1)
           IN [e \in Eefs |-> IF s[e] + skip < length[e] THEN s[e] + skip
                                                        ELSE length[e] - 1]
      ELSE s

Counted(e) == [step EXCEPT ![e] = @ + 1]
Advanced(e) == Navigated(Counted(e))

NavigationActs(e) == RepeatsBodyStep(Counted(e)) \/ SkipsBodySteps(Counted(e))
NavigationFails(e) == NavigationActs(e) /\ \E f \in Eefs : Counted(e)[f] = NONE

SubtaskDone(e) == ~NavigationFails(e) /\ Advanced(e)[e] = length[e]

\* "assert partner finished or partner at its last step"
PartnerUnfinished(e) == Is(e, "coordination") /\ ~rules[Partner(e)].finished

\* Mutant: the partner has to be through as well.
CoordinationFailureStrict(e) ==
    LET partner == Partner(e)[1] IN
    IF ~PartnerUnfinished(e) THEN "none"
    ELSE IF Advanced(e)[partner] = NONE THEN "TypeError"
    ELSE IF Advanced(e)[partner] < length[partner] THEN "AssertionError"
    ELSE "none"

CoordinationFailure(e) ==
    LET partner == Partner(e)[1] IN
    IF ~PartnerUnfinished(e) THEN "none"
    ELSE IF Advanced(e)[partner] = NONE THEN "TypeError"
    ELSE IF Advanced(e)[partner] < length[partner] - 1 THEN "AssertionError"
    ELSE "none"

AdvanceWithin(e) ==
    /\ Turn("advance", key_order, e)
    /\ ~NavigationFails(e) /\ ~SubtaskDone(e)
    /\ step' = Advanced(e)
    /\ nav' = [nav EXCEPT !.processed = @ \/ NavigationActs(e)]
    /\ NextTurn
    /\ UNCHANGED <<inputs, rules, subtask, length, resume, subtasks_done, crash>>

\* after its last subtask an end effector repeats its last waypoint for as long as
\* the others need, which appends it to the trajectory again and again; beyond
\* MaxLength the model keeps the one step that remains and stops counting
RepeatLastWaypoint(e) ==
    IF length[e] < MaxLength
      THEN /\ length' = [length EXCEPT ![e] = @ + 1]
           /\ step' = Advanced(e)
      ELSE /\ step' = [Advanced(e) EXCEPT ![e] = @ - 1]
           /\ UNCHANGED length

\* Mutant: the end of a former subtask releases nobody.
ReportedFinishedOnly(e) ==
    IF Is(e, "coordination") THEN [rules EXCEPT ![Key(e)].finished = TRUE] ELSE rules

\* completing a subtask releases its latter, or is reported to its partner
Reported(e) ==
    IF Is(e, "former") THEN [rules EXCEPT ![Partner(e)].fulfilled = TRUE]
    ELSE IF Is(e, "coordination") THEN [rules EXCEPT ![Key(e)].finished = TRUE]
    ELSE rules

\* Mutant: one subtask too many.
PastLastSubtask(e) == subtask[e] = NumSubtasks[e]

LastSubtask(e) == subtask[e] = NumSubtasks[e] - 1

CompleteSubtask(e) ==
    /\ Turn("advance", key_order, e)
    /\ SubtaskDone(e) /\ CoordinationFailure(e) = "none"
    /\ rules' = Reported(e)
    /\ nav' = [nav EXCEPT !.processed = @ \/ NavigationActs(e)]
    /\ IF LastSubtask(e)
         THEN /\ subtasks_done' = [subtasks_done EXCEPT ![e] = TRUE]
              /\ RepeatLastWaypoint(e)
              /\ UNCHANGED subtask
         ELSE /\ step' = [Advanced(e) EXCEPT ![e] = NONE]
              /\ subtask' = [subtask EXCEPT ![e] = @ + 1]
              /\ UNCHANGED <<subtasks_done, length>>
    /\ NextTurn
    /\ UNCHANGED <<inputs, resume, crash>>

AdvanceFails(e) ==
    /\ Turn("advance", key_order, e)
    /\ \/ NavigationFails(e) /\ Raise("TypeError")
       \/ /\ SubtaskDone(e) /\ CoordinationFailure(e) # "none"
          /\ Raise(CoordinationFailure(e))

AllDone == \A e \in Eefs : subtasks_done[e]

AdvanceDone ==
    /\ pass = "advance" /\ turn > Len(key_order)
    /\ pass' = IF AllDone THEN "finished" ELSE "plan"
    /\ turn' = 1
    /\ nav' = [nav EXCEPT !.was = nav.is]
    /\ UNCHANGED <<inputs, rules, eefVars, crash>>

Over == pass \in {"finished", "aborted", "crashed"}

Next ==
    \/ \E e \in Eefs :
          \/ StillExecuting(e) \/ BeginSubtask(e) \/ BeginSubtaskFails(e)
          \/ ResumeSubtask(e) \/ PlanningFails(e)
          \/ Constrain(e)
          \/ AdvanceWithin(e) \/ CompleteSubtask(e) \/ AdvanceFails(e)
    \/ PlanDone \/ Execute \/ AdvanceDone
    \/ Over /\ UNCHANGED vars

Spec == Init /\ [][Next]_vars
\* generate() is one coroutine that keeps being resumed
FairSpec == Spec /\ WF_vars(Next)
--------------------------------------------------------------------------------
(* Properties *)

Exceptions == {"none", "KeyError", "TypeError", "AssertionError"}

RuleRecord ==
    [type : {"former", "latter", "coordination"}, partner : Keys,
     min_time_diff : Int, sync_start : BOOLEAN, fulfilled : BOOLEAN,
     finished : BOOLEAN, synchronous_steps : Nat]

TypeOK ==
    /\ pass \in {"plan", "constrain", "advance", "finished", "aborted", "crashed"}
    /\ key_order \in KeyOrders /\ mode \in Modes /\ constraints \in ConstraintSets
    /\ segment \in [Keys -> Segments] /\ lead \in [Keys -> Leads]
    /\ turn \in 1 .. Len(key_order) + 1
    /\ DOMAIN rules \subseteq Keys
    /\ rules \in [DOMAIN rules -> RuleRecord]
    /\ \A k \in DOMAIN rules : rules[k].partner \in DOMAIN rules
    /\ subtask \in [Eefs -> Int]
    /\ \A e \in Eefs : subtask[e] \in 0 .. NumSubtasks[e] - 1 \cup {Transit}
    /\ step \in [Eefs -> Nat \cup {NONE, -1}]
    /\ length \in [Eefs -> Nat]
    /\ resume \in [Eefs -> Nat \cup {NONE}]
    /\ subtasks_done \in [Eefs -> BOOLEAN]
    /\ nav \in [was : BOOLEAN, is : BOOLEAN, reached : BOOLEAN, processed : BOOLEAN]
    /\ crash \in Exceptions

\* the subtask an end effector is at or on its way to
Position(e) == IF resume[e] # NONE THEN resume[e] ELSE subtask[e]
Passed(key) == Position(key[1]) > key[2] \/ subtasks_done[key[1]]
IsAt(key) == subtask[key[1]] = key[2] /\ step[key[1]] # NONE /\ ~subtasks_done[key[1]]
Remaining(key) == length[key[1]] - step[key[1]]

\* generate_runtime_subtask_constraints asserts "only one constraint per subtask
\* allowed"
OneConstraintPerSubtask ==
    \A i, j \in 1 .. Len(constraints) :
      i # j => {constraints[i].first, constraints[i].second}
                 \cap {constraints[j].first, constraints[j].second} = {}

\* What has to be over before a subtask can end: the one before it on the same end
\* effector; the former of a latter subtask; and for a coordinated one whatever its
\* partner comes after, which keeps it from the rendezvous.
Before(k, l) == k[1] = l[1] /\ k[2] + 1 = l[2]
AwaitedBy(l) ==
    {k \in Keys :
       \/ Before(k, l)
       \/ \E i \in DOMAIN constraints : LET c == constraints[i] IN
            \/ c.type = "sequential" /\ c.first = k /\ c.second = l
            \/ /\ c.type = "coordination"
               /\ \/ c.first = l /\ Before(k, c.second)
                  \/ c.second = l /\ Before(k, c.first)}

\* nothing in generate() or in the configuration checks it
NoMutualWaiting ==
    \A S \in SUBSET Keys : S # {} => \E l \in S : AwaitedBy(l) \cap S = {}

\* An end effector that waits goes on executing a waypoint: where there is but one,
\* the subtask is over before it was held back.
MayWait(key) == TrajectoryLength(key) > 1

\* The waypoint looked up for every end effector exists; and under such
\* constraints, with the end effectors configured in alphabetical order and two
\* waypoints at least in every coordinated subtask, an attempt meets no other Python
\* exception either, as long as the navigation controller leaves the step indices
\* alone.
NoException ==
    /\ pass = "constrain" =>
         \A i \in 1 .. turn - 1 : step[SortedOrder[i]] \in 0 .. length[SortedOrder[i]] - 1
    /\ /\ OneConstraintPerSubtask /\ mode # "navigation" /\ key_order = SortedOrder
       /\ \A k \in DOMAIN rules : rules[k].type = "coordination" => MayWait(k)
       => crash = "none"

\* A latter subtask is released when its former one is through, and not before.
\* Until then it keeps at least min_time_diff steps (all but its first, when that
\* is -1) to itself, so the two finish min_time_diff steps apart at least.
LatterHeldBack ==
    OneConstraintPerSubtask /\ pass = "plan" /\ mode # "navigation" =>
      \A k \in DOMAIN rules : rules[k].type = "latter" =>
        LET all == length[k[1]] - 1
            kept == rules[k].min_time_diff
        IN /\ rules[k].fulfilled = Passed(rules[k].partner)
           /\ ~rules[k].fulfilled /\ MayWait(k) /\ (kept = -1 \/ kept > 0) =>
                /\ ~Passed(k)
                /\ IsAt(k) => Remaining(k) >= IF kept = -1 \/ kept > all THEN all ELSE kept

\* Coordinated subtasks run side by side to their end: with
\* coordination_synchronize_start neither gets past its first step before the
\* other one is under way; once both are released they have the same number of
\* steps left, give or take one; and when one is through the other is through or at
\* its last step.
CoordinatedTogether ==
    OneConstraintPerSubtask /\ pass = "plan" /\ mode # "navigation" =>
      \A k \in {c \in DOMAIN rules : rules[c].type = "coordination"} :
        LET p == rules[k].partner IN
        MayWait(k) /\ MayWait(p) =>
          /\ rules[k].sync_start /\ (Passed(k) \/ (IsAt(k) /\ step[k[1]] > 1)) =>
                Position(p[1]) >= p[2]
          /\ mode = "plain" =>
                /\ IsAt(k) /\ IsAt(p) /\ rules[k].fulfilled /\ rules[p].fulfilled =>
                      Remaining(k) - Remaining(p) \in {-1, 0, 1}
                /\ Passed(k) => Passed(p) \/ (IsAt(p) /\ Remaining(p) <= 1)

\* An attempt comes to an end, unless its constraints make subtasks of the two end
\* effectors wait for each other: those repeat their waypoints for ever.
AttemptEnds ==
    OneConstraintPerSubtask /\ NoMutualWaiting /\ mode # "navigation" => <>Over
================================================================================
