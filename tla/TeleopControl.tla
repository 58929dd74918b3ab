----------------------------- MODULE TeleopControl -----------------------------
(***************************************************************************)
(* A teleoperation session under the control of its operator               *)
(* (isaaclab_teleop and the loops of record_demos.py and                   *)
(* teleop_se3_agent.py).  From the headset come "start", "stop" and        *)
(* "reset".  TeleopMessageProcessor turns them into pulses on a line that  *)
(* can only toggle, one level per frame, after a copy it keeps of the      *)
(* state of the machine at the other end (DefaultTeleopStateManager).  The *)
(* device shows the state of that machine to the script, which steps the   *)
(* environment while it is running and resets it on demand; a reset by the *)
(* script goes the same way back to the retargeters.                       *)
(*                                                                         *)
(* Meanwhile the XR session comes and goes: the operator stops AR, Kit     *)
(* reports it between two calls of its event loop or not at all, a step    *)
(* raises, Kit closes.  The session is then dropped and made anew; the     *)
(* pipelines, with what they remember, are built once and used again.      *)
(*                                                                         *)
(* A step runs two kinds of pipelines: the one for control, and after it   *)
(* the retargeters, in the step itself or, by default, in a worker of the  *)
(* session, in which case the action returned is that of the last frame    *)
(* the worker has completed.                                               *)
(*                                                                         *)
(* Retargeting, poses and anchors are left out; of an action only whether  *)
(* there is one.  What the script calls between two accesses to the device *)
(* is one action, before which Kit's event loop may call back.             *)
(***************************************************************************)
EXTENDS Integers, Sequences

CONSTANTS
    Configs,        \* configurations: the script, and three fields of its IsaacTeleopCfg
    NumDemos,       \* args_cli.num_demos
    MaxCommands,    \* bound: messages on the channel
    MaxFaults,      \* bound: AR stopped, and steps or session starts that raise
    None            \* _NO_OP_EVENTS, last_context and is_active when there is none

ASSUME ConfigsAssumption ==
    Configs \subseteq [script : {"record_demos", "teleop_se3_agent"},
                       channel : BOOLEAN, activeDefault : BOOLEAN, pipelined : BOOLEAN]
ASSUME BoundsAssumption ==
    NumDemos \in Nat \ {0} /\ MaxCommands \in Nat /\ MaxFaults \in Nat
ASSUME NoneAssumption ==
    /\ None \notin [active : BOOLEAN, reset : BOOLEAN]
    /\ None \notin BOOLEAN /\ None \notin {"start", "stop"}

VARIABLES
    cfg,                    \* the configuration of this program
    xr,                     \* Kit has an OpenXR session and its handles
    closing,                \* Kit closes: simulation_app.is_running() is false
    faults,                 \* AR stopped and calls that raised, so far
    commands,               \* messages so far
    shadowState,            \* TeleopMessageProcessor._shadow_state
    runToggleQueue,         \* ._run_toggle_queue, of levels
    prevToggleOutput,       \* ._prev_toggle_output
    injectResetPending,     \* ._inject_reset_pending
    reset,                  \* "reset" of _compute_fn, while it runs
    executionState,         \* the state of DefaultTeleopStateManager
    prevPressed,            \* and the level it saw last
    session,                \* _session: "none", "live", or "dead" when XR has left it
    context,                \* session.last_context.execution_events, or None
    pendingReset,           \* TeleopSessionLifecycle._pending_reset
    prevControlIsActive,    \* IsaacTeleopDevice._prev_control_is_active
    pc,                     \* where the script is
    active,                 \* running_recording_instance, teleoperation_active
    shouldReset,            \* should_reset_recording_instance
    acting,                 \* advance() returned an action
    demos,                  \* exported_successful_episode_count
    \* what the properties remember
    callbackActive,         \* the flag of a script that has callbacks only
    accepted,               \* the last "start" or "stop" that found no pulses left to send
    commanded,              \* a "reset" was on the channel in this frame
    delivered,              \* the retargeters were handed a reset in this frame
    owed,                   \* where the reset is that the script asked for: "due" before they
                            \* are handed it, with the "worker", "lost" on the way, or "no"
    cause,                  \* what the last resets of the environment go back to
    resets                  \* and their number (at most 3 are counted)

outside == <<cfg, xr, closing, faults, commands>>
processor == <<shadowState, runToggleQueue, prevToggleOutput, injectResetPending, reset>>
manager == <<executionState, prevPressed>>
lifecycle == <<session, context, pendingReset>>
script == <<pc, active, shouldReset, acting, demos>>
dispatched == <<prevControlIsActive, callbackActive>>
heard == <<accepted, commanded>>
given == <<delivered, owed>>
counted == <<cause, resets>>
vars == <<outside, processor, manager, lifecycle, script, dispatched, heard, given, counted>>

Low == 0
High == 1
InAdvance == {"advance", "messages", "controlled", "computed"}
Loop == InAdvance \cup {"act", "reset"}
\* the script is in a call of the simulation, which runs Kit's event loop
Pumping == {"begin", "act", "reset"}

Init ==
    /\ cfg \in Configs
    /\ xr \in BOOLEAN
    /\ closing = FALSE /\ faults = 0 /\ commands = 0
    /\ shadowState = "stopped" /\ runToggleQueue = <<>> /\ prevToggleOutput = Low
    /\ injectResetPending = FALSE /\ reset = FALSE
    /\ executionState = "stopped" /\ prevPressed = Low
    /\ session = "none" /\ context = None /\ pendingReset = FALSE
    /\ prevControlIsActive = None
    /\ pc = "enter"
    /\ active = (cfg.script = "teleop_se3_agent" /\ cfg.activeDefault)
    /\ shouldReset = FALSE /\ acting = FALSE /\ demos = 0
    /\ callbackActive = active
    /\ accepted = None /\ commanded = FALSE
    /\ delivered = FALSE /\ owed = "no"
    /\ cause = "host" /\ resets = 0


(***************************************************************************)
(* TeleopMessageProcessor and the machine it drives                        *)
(***************************************************************************)
\* The levels that take the machine, in the given state, to "running" ...
StartToggleSequence(s) ==
    CASE s = "stopped" -> <<High, Low, High>> [] s = "paused" -> <<High>> [] OTHER -> <<>>

\* ... and out of it.
StopToggleSequence(s) == IF s = "running" THEN <<High>> ELSE <<>>

\* Mutant: pulses are sent as they are.
MakeToggleSequenceAsIs(base) == base

\* A level that is already high has to fall before it can rise.
MakeToggleSequence(base) ==
    IF base = <<>> THEN <<>>
    ELSE IF prevToggleOutput = High THEN <<Low>> \o base ELSE base

ToggleTransition(s) == IF s = "paused" THEN "running" ELSE "paused"

\* A message is read: "start" and "stop" only while no pulses are left to send.
Enqueue(command) ==
    IF runToggleQueue # <<>> \/ command = "reset" THEN runToggleQueue
    ELSE MakeToggleSequence(IF command = "start" THEN StartToggleSequence(shadowState)
                            ELSE StopToggleSequence(shadowState))

\* _compute_fn, one message of the batch.
Message(command) ==
    /\ pc = "messages" /\ cfg.channel
    /\ commands < MaxCommands /\ commands' = commands + 1
    /\ runToggleQueue' = Enqueue(command)
    /\ reset' = (reset \/ command = "reset")
    /\ IF command = "reset"
       THEN /\ commanded' = TRUE /\ cause' = "command" /\ resets' = 0
            /\ UNCHANGED accepted
       ELSE /\ accepted' = IF runToggleQueue = <<>> THEN command ELSE accepted
            /\ UNCHANGED <<commanded, counted>>
    /\ UNCHANGED <<cfg, xr, closing, faults, shadowState, prevToggleOutput, injectResetPending,
                   manager, lifecycle, script, dispatched, given>>

\* The level of this frame.
RunToggle == IF runToggleQueue = <<>> THEN Low ELSE Head(runToggleQueue)

\* _compute_fn, the rest: one level is sent, the copy follows it if it rises.
Drain ==
    /\ runToggleQueue' = IF runToggleQueue = <<>> THEN <<>> ELSE Tail(runToggleQueue)
    /\ shadowState' = IF RunToggle = High /\ prevToggleOutput = Low
                      THEN ToggleTransition(shadowState) ELSE shadowState
    /\ prevToggleOutput' = RunToggle
    /\ UNCHANGED injectResetPending

\* The state manager: a rising level toggles it.
Toggle ==
    /\ executionState' = IF RunToggle = High /\ prevPressed = Low
                         THEN ToggleTransition(executionState) ELSE executionState
    /\ prevPressed' = RunToggle

\* The control pipeline of one step: the manager's state and the reset are what
\* the script will be shown.  Without a channel there is no manager, and nobody
\* reads the events.
Compute ==
    /\ pc = "messages" /\ pc' = "controlled"
    /\ Drain /\ Toggle
    /\ context' = IF cfg.channel
                  THEN [active |-> executionState' = "running", reset |-> reset] ELSE None
    /\ UNCHANGED <<outside, reset, session, pendingReset, active, shouldReset, acting, demos,
                   dispatched, heard, given, counted>>

\* The retargeters are handed the frame with its reset, and have computed it
\* when step() returns; or the worker has it, and step() returns an older one.
Retarget ==
    /\ pc = "controlled" /\ pc' = "computed"
    /\ reset' = FALSE
    /\ delivered' = reset
    /\ owed' = IF reset THEN IF cfg.pipelined THEN "worker" ELSE "no" ELSE owed
    /\ UNCHANGED <<outside, shadowState, runToggleQueue, prevToggleOutput, injectResetPending,
                   manager, lifecycle, active, shouldReset, acting, demos, dispatched, heard,
                   counted>>

\* The worker gets to the frame of the reset.
WorkerCompletes ==
    /\ owed = "worker" /\ owed' = "no"
    /\ UNCHANGED <<outside, processor, manager, lifecycle, script, dispatched, heard, delivered,
                   counted>>


(***************************************************************************)
(* TeleopSessionLifecycle                                                  *)
(***************************************************************************)
LastControlEvents == IF cfg.channel /\ session # "none" THEN context ELSE None

ShouldReset == LastControlEvents # None /\ LastControlEvents.reset

\* Of a reset asked for, what has left the processor goes with the session.
Forgotten == IF owed = "worker" \/ (owed = "due" /\ reset) THEN "lost" ELSE owed

\* Mutant: the dead session stays assigned.
TeardownDeadSessionKept ==
    /\ session' = session /\ context' = None
    /\ owed' = Forgotten
    /\ cause' = "host" /\ resets' = 0

\* The session is forgotten, with its worker and whatever it had yet to report.
TeardownDeadSession ==
    /\ session' = "none" /\ context' = None
    /\ owed' = Forgotten
    /\ cause' = "host" /\ resets' = 0

\* start(): the pipelines are built; the session may have to wait for AR.
Start ==
    /\ pc = "enter" /\ pc' = "begin"
    /\ session' = IF xr THEN "live" ELSE "none"
    /\ UNCHANGED <<outside, processor, manager, context, pendingReset, active, shouldReset,
                   acting, demos, dispatched, heard, given, counted>>

\* The session is assigned before it is entered.  Raised by start() it leaves
\* the program without stop(); raised by a later step, with it.
SessionRaises ==
    /\ pc = "enter" \/ (pc = "advance" /\ session = "none")
    /\ xr /\ faults < MaxFaults
    /\ session' = "dead" /\ faults' = faults + 1
    /\ pc' = IF pc = "enter" THEN "done" ELSE "stop"
    /\ UNCHANGED <<cfg, xr, closing, commands, processor, manager, context, pendingReset, active,
                   shouldReset, acting, demos, dispatched, heard, given, counted>>

\* step() without a session: once AR has started there is one.
TryStartSession ==
    /\ pc = "advance" /\ session = "none" /\ xr
    /\ session' = "live"
    /\ UNCHANGED <<outside, processor, manager, context, pendingReset, script, dispatched,
                   heard, given, counted>>

\* advance() returns None: no events, no callback.
NoAction == acting' = FALSE /\ pc' = "act"

\* step() while AR has yet to start.
Deferred ==
    /\ pc = "advance" /\ session = "none" /\ ~xr
    /\ NoAction
    /\ delivered' = FALSE /\ commanded' = FALSE
    /\ UNCHANGED <<outside, processor, manager, lifecycle, active, shouldReset, demos, dispatched,
                   accepted, owed, counted>>

\* step(): what the host has asked for goes into the pipelines, through the
\* processor or, without a channel, as an override of the events.
BeginStep ==
    /\ pc = "advance" /\ session = "live" /\ pc' = "messages"
    /\ reset' = IF cfg.channel THEN injectResetPending ELSE pendingReset
    /\ injectResetPending' = FALSE
    /\ pendingReset' = FALSE
    /\ delivered' = FALSE /\ commanded' = FALSE
    /\ UNCHANGED <<outside, shadowState, runToggleQueue, prevToggleOutput, manager, session, context,
                   active, shouldReset, acting, demos, dispatched, accepted, owed, counted>>

\* Mutant: what was injected is dropped with the session.
StepFailsForgetting ==
    /\ pc = "advance"
    /\ \/ session = "dead" /\ faults' = faults
       \/ session = "live" /\ faults < MaxFaults /\ faults' = faults + 1
    /\ pendingReset' = FALSE /\ injectResetPending' = FALSE
    /\ TeardownDeadSession
    /\ NoAction
    /\ delivered' = FALSE /\ commanded' = FALSE
    /\ UNCHANGED <<cfg, xr, closing, commands, shadowState, runToggleQueue, prevToggleOutput, reset,
                   manager, active, shouldReset, demos, dispatched, accepted>>

\* step() with a session that raises before the pipelines run, as one that XR
\* has left always does.  The override has been taken by then.
StepFails ==
    /\ pc = "advance"
    /\ \/ session = "dead" /\ faults' = faults
       \/ session = "live" /\ faults < MaxFaults /\ faults' = faults + 1
    /\ pendingReset' = FALSE
    /\ TeardownDeadSession
    /\ NoAction
    /\ delivered' = FALSE /\ commanded' = FALSE
    /\ UNCHANGED <<cfg, xr, closing, commands, processor, manager, active, shouldReset, demos,
                   dispatched, accepted>>

\* step() with a session that raises once the processor has taken what was to be
\* reset: while it reads messages, before the retargeters have run, or after.
StepFailsLate ==
    /\ pc \in {"messages", "controlled", "computed"}
    /\ faults < MaxFaults /\ faults' = faults + 1
    /\ reset' = FALSE
    /\ TeardownDeadSession
    /\ NoAction
    /\ UNCHANGED <<cfg, xr, closing, commands, shadowState, runToggleQueue, prevToggleOutput,
                   injectResetPending, manager, pendingReset, active, shouldReset, demos,
                   dispatched, heard, delivered>>

\* Mutant: every request is injected.
RequestResetAlways ==
    IF cfg.channel THEN injectResetPending' = TRUE /\ UNCHANGED pendingReset
    ELSE pendingReset' = TRUE /\ UNCHANGED injectResetPending

\* request_reset(): not if the reset came over the channel in this frame.
RequestReset ==
    IF ShouldReset THEN UNCHANGED <<injectResetPending, pendingReset>>
    ELSE IF cfg.channel THEN injectResetPending' = TRUE /\ UNCHANGED pendingReset
    ELSE pendingReset' = TRUE /\ UNCHANGED injectResetPending

\* stop(), on leaving the device's context.
Stop ==
    /\ pc = "stop" /\ pc' = "done"
    /\ session' = "none" /\ context' = None
    /\ UNCHANGED <<outside, processor, manager, pendingReset, active, shouldReset, acting, demos,
                   dispatched, heard, given, counted>>


(***************************************************************************)
(* IsaacTeleopDevice and the loop of the script                            *)
(***************************************************************************)
\* Mutant: only a rising state is dispatched.
DispatchControlCallbacksStart(events) ==
    IF events = None THEN UNCHANGED dispatched
    ELSE /\ prevControlIsActive' = events.active
         /\ callbackActive' = IF prevControlIsActive = FALSE THEN events.active ELSE callbackActive

\* _dispatch_control_callbacks(): START and STOP when the state has changed.
DispatchControlCallbacks(events) ==
    IF events = None THEN UNCHANGED dispatched
    ELSE /\ prevControlIsActive' = events.active
         /\ callbackActive' = IF prevControlIsActive # None THEN events.active ELSE callbackActive

\* advance() returns an action; poll_control_events() has the last word.
Advanced ==
    /\ pc = "computed" /\ pc' = "act"
    /\ acting' = TRUE
    /\ DispatchControlCallbacks(LastControlEvents)
    /\ active' = IF LastControlEvents = None THEN active ELSE LastControlEvents.active
    /\ shouldReset' = (shouldReset \/ ShouldReset)
    /\ UNCHANGED <<outside, processor, manager, lifecycle, demos, heard, given, counted>>

\* The condition of the loop.
Again == IF closing THEN "stop" ELSE "advance"

\* record_demos.py without an action: render, and wait for the session.
Render ==
    /\ pc = "act" /\ cfg.script = "record_demos" /\ ~acting
    /\ pc' = Again
    /\ UNCHANGED <<outside, processor, manager, lifecycle, active, shouldReset, acting, demos,
                   dispatched, heard, given, counted>>

\* Mutant: a reset waits until the operator has started.
ActResetWhenActive ==
    /\ pc = "act" /\ (acting \/ cfg.script = "teleop_se3_agent")
    /\ \E success \in BOOLEAN :
         /\ success => cfg.script = "record_demos"
         /\ demos' = IF success THEN demos + 1 ELSE demos
         /\ shouldReset' = (shouldReset \/ success)
         /\ pc' = IF success /\ demos' = NumDemos THEN "stop"
                  ELSE IF shouldReset' /\ active THEN "reset" ELSE Again
         /\ IF success THEN cause' = "host" /\ resets' = 0 ELSE UNCHANGED counted
    /\ UNCHANGED <<outside, processor, manager, lifecycle, active, acting, dispatched, heard, given>>

\* The environment is stepped if active, rendered otherwise; record_demos.py
\* exports a successful demonstration and ends with the last.
Act ==
    /\ pc = "act" /\ (acting \/ cfg.script = "teleop_se3_agent")
    /\ \E success \in BOOLEAN :
         /\ success => cfg.script = "record_demos"
         /\ demos' = IF success THEN demos + 1 ELSE demos
         /\ shouldReset' = (shouldReset \/ success)
         /\ pc' = IF success /\ demos' = NumDemos THEN "stop"
                  ELSE IF shouldReset' THEN "reset" ELSE Again
         /\ IF success THEN cause' = "host" /\ resets' = 0 ELSE UNCHANGED counted
    /\ UNCHANGED <<outside, processor, manager, lifecycle, active, acting, dispatched, heard, given>>

\* handle_reset(), and what the script does before its loop: the environment
\* is reset, then the device.
Reset ==
    /\ pc \in {"begin", "reset"} /\ pc' = Again
    /\ RequestReset
    /\ shouldReset' = FALSE
    /\ owed' = IF delivered THEN owed ELSE "due"
    /\ resets' = IF resets < 3 THEN resets + 1 ELSE resets
    /\ UNCHANGED <<outside, shadowState, runToggleQueue, prevToggleOutput, reset, manager, session,
                   context, active, acting, demos, dispatched, heard, delivered, cause>>

\* A call of the simulation raises, or its timeline is found stopped; or what
\* step() does before and after the step of its session, outside its try.
Leave ==
    /\ pc \in Pumping \cup {"computed"} \/ (pc = "advance" /\ session # "none")
    /\ pc' = "stop"
    /\ UNCHANGED <<outside, processor, manager, lifecycle, active, shouldReset, acting, demos,
                   dispatched, heard, given, counted>>


(***************************************************************************)
(* XR and Kit                                                              *)
(***************************************************************************)
XrStarts ==
    /\ ~xr /\ xr' = TRUE
    /\ UNCHANGED <<cfg, closing, faults, commands, processor, manager, lifecycle, script, dispatched,
                   heard, given, counted>>

XrStops ==
    /\ xr /\ xr' = FALSE
    /\ faults < MaxFaults /\ faults' = faults + 1
    /\ session' = IF session = "live" THEN "dead" ELSE session
    /\ UNCHANGED <<cfg, closing, commands, processor, manager, context, pendingReset, script,
                   dispatched, heard, given, counted>>

\* _on_xr_enabled_changed(): the setting is read when the callback runs.
OnXrEnabledChanged ==
    /\ pc \in Pumping /\ ~xr /\ session # "none"
    /\ TeardownDeadSession
    /\ UNCHANGED <<outside, processor, manager, pendingReset, script, dispatched, heard, delivered>>

OnPreShutdown ==
    /\ pc \in Pumping /\ ~closing /\ closing' = TRUE
    /\ TeardownDeadSession
    /\ UNCHANGED <<cfg, xr, faults, commands, processor, manager, pendingReset, script, dispatched,
                   heard, delivered>>

--------------------------------------------------------------------------------
\* The script goes on by itself; it is told nothing, and nothing fails.
Proceed ==
    \/ Start \/ TryStartSession \/ Deferred \/ BeginStep \/ StepFails \/ Compute
    \/ Retarget \/ Advanced \/ Render \/ Act \/ Reset \/ Stop

Next ==
    \/ Proceed
    \/ \E command \in {"start", "stop", "reset"} : Message(command)
    \/ SessionRaises \/ StepFailsLate \/ WorkerCompletes \/ Leave
    \/ XrStarts \/ XrStops \/ OnXrEnabledChanged \/ OnPreShutdown

Spec == Init /\ [][Next]_vars

\* The loop of the script runs until it is left.
FairSpec == Spec /\ WF_vars(Proceed)


(***************************************************************************)
(* Properties                                                              *)
(***************************************************************************)
Commands == {None, "start", "stop"}
States == {"stopped", "paused", "running"}
Events == [active : BOOLEAN, reset : BOOLEAN]

\* Every variable has its type; at most three levels are waiting to be sent,
\* and there is a context only of a session.
TypeOK ==
    /\ cfg \in Configs
    /\ xr \in BOOLEAN /\ closing \in BOOLEAN
    /\ faults \in 0 .. MaxFaults /\ commands \in 0 .. MaxCommands
    /\ shadowState \in States /\ executionState \in States
    /\ runToggleQueue \in Seq({Low, High}) /\ Len(runToggleQueue) <= 3
    /\ prevToggleOutput \in {Low, High} /\ prevPressed \in {Low, High}
    /\ injectResetPending \in BOOLEAN /\ reset \in BOOLEAN /\ pendingReset \in BOOLEAN
    /\ session \in {"none", "live", "dead"}
    /\ context \in {None} \cup Events /\ (session = "none" => context = None)
    /\ prevControlIsActive \in {None} \cup BOOLEAN
    /\ pc \in Loop \cup {"enter", "begin", "stop", "done"}
    /\ active \in BOOLEAN /\ shouldReset \in BOOLEAN /\ acting \in BOOLEAN
    /\ demos \in Nat
    /\ callbackActive \in BOOLEAN
    /\ accepted \in Commands
    /\ commanded \in BOOLEAN /\ delivered \in BOOLEAN
    /\ owed \in {"no", "due", "worker", "lost"}
    /\ cause \in {"host", "command"} /\ resets \in 0 .. 3

\* The copy that the processor keeps is good enough to aim by: once the pulses
\* of the last accepted command are sent, the state manager is where the
\* command wants it, also if sessions were lost or steps failed in between.
\* (A command that comes while pulses are sent is not accepted, a stop neither.)
AcceptedCommandHolds ==
    runToggleQueue = <<>> =>
        /\ accepted = "start" => executionState = "running"
        /\ accepted # "start" => executionState # "running"

\* The two ways in which a script can follow the operator do not contradict
\* each other: whenever the environment may be stepped, the flag polled by the
\* loop says what the state manager says, and callbacks alone would not have
\* left running what the loop takes for stopped (in a script that starts
\* inactive, as both do by default; START may be missed, if the first frames
\* that a session completes all end in an exception).
ScriptFollowsManager ==
    /\ pc = "act" /\ acting /\ cfg.channel => active = (executionState = "running")
    /\ ~cfg.activeDefault /\ callbackActive => active

\* A reset by the script survives sessions that are lost and steps that raise on
\* its way to the processor: no action is applied while one is still to be handed
\* to the retargeters, and none that comes from retargeters not yet reset, unless
\* they run in a worker, which returns older frames until it gets to that one.
\* Beyond the processor nothing keeps it: it is "lost" if that very step raises or
\* the session goes before the worker gets to it.  (Without a channel the override
\* is cleared before the step that may fail.)
InjectedResetDelivered ==
    cfg.channel /\ pc = "act" /\ acting =>
        /\ owed # "due"
        /\ owed = "worker" => cfg.pipelined

\* The reset that the script injects comes back to it as an event, and it
\* resets again: that must end.  One reset command causes one reset of the
\* environment; any other cause (success, a lost session, the start) at most two.
NoResetLoop ==
    resets <= IF cause = "command" THEN 1 ELSE 2

\* A reset command is known to the script in the frame it arrives in, unless the
\* step of that frame raises, and no request is carried into another frame, in
\* which it would reset the beginning of the next episode.
ResetsAnswered ==
    /\ pc = "act" /\ acting /\ commanded => shouldReset
    /\ pc = "advance" => ~shouldReset

\* A session that is lost is replaced: while AR stays on and the loop goes on,
\* there is a session that works from some time on, whoever noticed the loss.
SessionReturns ==
    <>[](xr /\ pc \in Loop) => <>[](session = "live")
================================================================================
