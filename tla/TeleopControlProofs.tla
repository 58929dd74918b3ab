-------------------------- MODULE TeleopControlProofs --------------------------
(***************************************************************************)
(* Proofs about TeleopControl for every set of configurations and every    *)
(* bound on demonstrations, messages and faults.                           *)
(***************************************************************************)
EXTENDS TeleopControl, SequenceTheorems, TLAPS

(***************************************************************************)
(* The inductive invariant                                                 *)
(***************************************************************************)
\* The processor and the state manager see the same levels and agree.
Mirror ==
    /\ shadowState = executionState /\ prevToggleOutput = prevPressed
    /\ shadowState = "stopped" => prevToggleOutput = Low

\* What may be waiting to be sent, and for which command and state: what is
\* left always brings the machine to where the accepted command wants it.
Aimed ==
    \/ /\ runToggleQueue = <<>>
       /\ (accepted = "start") = (shadowState = "running")
    \/ /\ runToggleQueue = <<High, Low, High>>
       /\ shadowState = "stopped" /\ accepted = "start" /\ prevToggleOutput = Low
    \/ /\ runToggleQueue = <<Low, High>> /\ prevToggleOutput = High
       /\ \/ shadowState = "paused" /\ accepted = "start"
          \/ shadowState = "running" /\ accepted = "stop"
    \/ /\ runToggleQueue = <<High>> /\ prevToggleOutput = Low
       /\ \/ shadowState = "paused" /\ accepted = "start"
          \/ shadowState = "running" /\ accepted = "stop"

\* Where a session and its events are within a frame.
FrameInv ==
    /\ pc \in {"messages", "controlled", "computed"} => session # "none"
    /\ ~cfg.channel => context = None
    /\ pc \in {"controlled", "computed"} /\ cfg.channel =>
         context # None /\ context.active = (executionState = "running")
    /\ pc = "controlled" /\ cfg.channel => context.reset = reset
    /\ pc \in {"enter", "begin"} => context = None /\ cause = "host" /\ resets = 0
    /\ pc \notin {"messages", "controlled"} => ~reset
    /\ pc \in {"messages", "controlled", "computed"} \/ (pc = "act" /\ acting) =>
         ~injectResetPending
    /\ pc \in {"computed", "act", "reset"} /\ ShouldReset => delivered
    /\ shouldReset => pc \in {"act", "reset", "stop", "done"}
    /\ pc = "act" /\ ~acting => ~shouldReset
    /\ pc = "reset" => acting /\ ~injectResetPending

\* Callbacks are silent before the state was first seen.
SilentInv ==
    ~cfg.activeDefault /\ prevControlIsActive = None => ~callbackActive

\* What is owed to the retargeters is on its way.
OwedInv ==
    /\ cfg.channel /\ owed = "due" =>
         \/ pc \notin {"messages", "controlled", "computed"} /\ ~(pc = "act" /\ acting)
              /\ (pc \in {"enter", "advance", "act", "begin"} => injectResetPending)
         \/ pc \in {"messages", "controlled"} /\ reset
    /\ owed = "worker" => cfg.pipelined
    /\ delivered => pc \notin {"messages", "controlled"}
    /\ delivered /\ pc \in {"computed", "act", "reset"} => owed # "due"

\* A command of this frame is on its way to the script.
CommandInv ==
    commanded =>
        /\ pc \in {"messages", "controlled"} => cfg.channel /\ reset
        /\ pc \in {"controlled", "computed"} => ShouldReset

\* No reset is under way.
Quiet ==
    /\ ~injectResetPending /\ ~(cfg.channel /\ reset) /\ ~shouldReset
    /\ pc \notin {"begin", "reset"}
    /\ pc \in {"controlled", "computed"} => ~ShouldReset

\* Of the resets that a cause may have, one is left: it comes over the channel.
LastReset ==
    /\ cause = "command" => cfg.channel
    /\ cause = "command" /\ resets = 0 =>
         /\ pc \notin {"enter", "begin", "advance"}
         /\ pc \in {"messages", "controlled"} => reset
         /\ pc \in {"controlled", "computed"} => ShouldReset
         /\ pc = "act" => acting /\ shouldReset
    /\ (cause = "command" /\ resets = 0) \/ (cause = "host" /\ resets = 1) =>
         /\ pc = "reset" => ShouldReset
         /\ pc = "act" /\ shouldReset => ShouldReset

NoneLeft ==
    resets > (IF cause = "command" THEN 0 ELSE 1) /\ pc \in Loop => Quiet

\* TypeOK in two parts, which different provers can do.
Flags ==
    /\ xr \in BOOLEAN /\ closing \in BOOLEAN
    /\ injectResetPending \in BOOLEAN /\ reset \in BOOLEAN /\ pendingReset \in BOOLEAN
    /\ active \in BOOLEAN /\ shouldReset \in BOOLEAN /\ acting \in BOOLEAN
    /\ callbackActive \in BOOLEAN
    /\ commanded \in BOOLEAN /\ delivered \in BOOLEAN

Values ==
    /\ cfg \in Configs
    /\ faults \in 0 .. MaxFaults /\ commands \in 0 .. MaxCommands
    /\ shadowState \in States /\ executionState \in States
    /\ prevToggleOutput \in {Low, High} /\ prevPressed \in {Low, High}
    /\ session \in {"none", "live", "dead"}
    /\ context \in {None} \cup Events /\ (session = "none" => context = None)
    /\ prevControlIsActive \in {None} \cup BOOLEAN
    /\ pc \in Loop \cup {"enter", "begin", "stop", "done"}
    /\ demos \in Nat
    /\ accepted \in Commands
    /\ owed \in {"no", "due", "worker", "lost"}
    /\ cause \in {"host", "command"} /\ resets \in 0 .. 3

\* The invariant in parts, by what a proof of each needs to know: the machine
\* and its copy, what the script sees, the two ways of a reset, and its echo.
Types == Flags /\ Values
Pulses == Mirror /\ Aimed
Follows == FrameInv /\ SilentInv /\ ScriptFollowsManager
Delivery == OwedInv /\ CommandInv /\ InjectedResetDelivered /\ ResetsAnswered
Echo == LastReset /\ NoneLeft /\ NoResetLoop

IInv == Types /\ Pulses /\ Follows /\ Delivery /\ Echo

--------------------------------------------------------------------------------
(***************************************************************************)
(* The queue of levels                                                     *)
(***************************************************************************)
\* Taking levels off the queues that occur.
LEMMA Tails ==
    /\ Tail(<<High, Low, High>>) = <<Low, High>> /\ Head(<<High, Low, High>>) = High
    /\ Tail(<<Low, High>>) = <<High>> /\ Head(<<Low, High>>) = Low
    /\ Tail(<<High>>) = <<>> /\ Head(<<High>>) = High
    /\ <<High, Low, High>> # <<>> /\ <<Low, High>> # <<>> /\ <<High>> # <<>>
<1>1. Head(<<High>>) = High
  <2>1. <<High>> \in Seq({High}) /\ <<High>> # <<>>
    OBVIOUS
  <2>2. QED
    BY <2>1, HeadTailProperties
<1>2. Tail(<<High>>) = <<>>
  OBVIOUS
<1>3. /\ Tail(<<High, Low, High>>) = <<Low, High>> /\ Head(<<High, Low, High>>) = High
      /\ Tail(<<Low, High>>) = <<High>> /\ Head(<<Low, High>>) = Low
  BY DEF High, Low
<1>4. <<High, Low, High>> # <<>> /\ <<Low, High>> # <<>> /\ <<High>> # <<>>
  OBVIOUS
<1>5. QED
  BY <1>1, <1>2, <1>3, <1>4

\* A fall put in front of a rise.
LEMMA FallFirst == <<Low>> \o <<High>> = <<Low, High>>
<1>1. /\ <<Low>> \in Seq({Low, High}) /\ <<High>> \in Seq({Low, High})
      /\ <<Low, High>> \in Seq({Low, High})
      /\ Len(<<Low>>) = 1 /\ Len(<<High>>) = 1 /\ Len(<<Low, High>>) = 2
  OBVIOUS
<1>2. <<Low>>[1] = Low /\ <<High>>[1] = High
  BY Zenon
<1>3. <<Low, High>>[1] = Low /\ <<Low, High>>[2] = High
  OBVIOUS
<1>4. /\ <<Low>> \o <<High>> \in Seq({Low, High}) /\ Len(<<Low>> \o <<High>>) = 2
      /\ \A i \in 1 .. 2 : (<<Low>> \o <<High>>)[i] = IF i <= 1 THEN <<Low>>[i] ELSE <<High>>[i - 1]
  BY <1>1, ConcatProperties
<1>5. \A i \in 1 .. 2 : (<<Low>> \o <<High>>)[i] = <<Low, High>>[i]
  BY <1>2, <1>3, <1>4
<1>6. QED
  BY <1>1, <1>4, <1>5, SeqEqual

\* An aimed queue is one of four, none longer than three levels.
LEMMA AimedType ==
    Aimed => runToggleQueue \in Seq({Low, High}) /\ Len(runToggleQueue) <= 3
<1>1. /\ <<>> \in Seq({Low, High}) /\ <<High, Low, High>> \in Seq({Low, High})
      /\ <<Low, High>> \in Seq({Low, High}) /\ <<High>> \in Seq({Low, High})
  OBVIOUS
<1>2. /\ Len(<<>>) = 0 /\ Len(<<High, Low, High>>) = 3
      /\ Len(<<Low, High>>) = 2 /\ Len(<<High>>) = 1
  OBVIOUS
<1>3. Aimed => \/ runToggleQueue = <<>> \/ runToggleQueue = <<High, Low, High>>
               \/ runToggleQueue = <<Low, High>> \/ runToggleQueue = <<High>>
  BY DEF Aimed
<1>4. CASE runToggleQueue = <<>>
  BY <1>1, <1>2, <1>4
<1>5. CASE runToggleQueue = <<High, Low, High>>
  BY <1>1, <1>2, <1>5
<1>6. CASE runToggleQueue = <<Low, High>>
  BY <1>1, <1>2, <1>6
<1>7. CASE runToggleQueue = <<High>>
  BY <1>1, <1>2, <1>7
<1>8. QED
  BY <1>3, <1>4, <1>5, <1>6, <1>7

\* What a command puts on an empty queue aims it at what the command wants.
LEMMA EnqueueAims ==
    ASSUME Values, Mirror, Aimed, runToggleQueue = <<>>,
           NEW command \in {"start", "stop"},
           runToggleQueue' = Enqueue(command), accepted' = command,
           UNCHANGED <<shadowState, prevToggleOutput>>
    PROVE  Aimed'
<1>1. CASE prevToggleOutput = High
  BY <1>1, Tails, FallFirst
     DEF Values, States, Mirror, Aimed, Enqueue, MakeToggleSequence,
         StartToggleSequence, StopToggleSequence, Low, High
<1>2. CASE prevToggleOutput = Low
  BY <1>2, Tails
     DEF Values, States, Mirror, Aimed, Enqueue, MakeToggleSequence,
         StartToggleSequence, StopToggleSequence, Low, High
<1>3. QED
  BY <1>1, <1>2 DEF Values

\* One level is sent: the machine follows its copy, and the rest still aims.
LEMMA DrainAims ==
    ASSUME Values, Mirror, Aimed, Drain, Toggle, UNCHANGED accepted
    PROVE  Mirror' /\ Aimed'
<1> USE DEF Mirror, Drain, Toggle, RunToggle, ToggleTransition
<1>1. CASE runToggleQueue = <<>>
  BY <1>1, Tails DEF Aimed, Low, High
<1>2. CASE runToggleQueue = <<High, Low, High>>
  BY <1>2, Tails DEF Aimed, Low, High
<1>3. CASE runToggleQueue = <<Low, High>>
  BY <1>3, Tails DEF Aimed, Low, High
<1>4. CASE runToggleQueue = <<High>>
  BY <1>4, Tails DEF Aimed, Low, High
<1>5. QED
  BY <1>1, <1>2, <1>3, <1>4 DEF Aimed


(***************************************************************************)
(* Types                                                                   *)
(***************************************************************************)
\* The flags stay BOOLEAN: most are copied or set.
LEMMA FlagsKept == IInv /\ Next => Flags'
<1> SUFFICES ASSUME IInv, Next PROVE Flags'
  OBVIOUS
<1> USE DEF IInv, Types, Flags, outside, processor, manager, lifecycle, script,
    dispatched, heard, given, counted
<1>1. CASE Start
  BY <1>1, Zenon DEF Start
<1>2. CASE TryStartSession
  BY <1>2, Zenon DEF TryStartSession
<1>3. CASE Deferred
  BY <1>3, Zenon DEF Deferred, NoAction
<1>4. CASE BeginStep
  BY <1>4, Zenon DEF BeginStep
<1>5. CASE StepFails
  BY <1>5, Zenon DEF StepFails, NoAction, TeardownDeadSession, Forgotten
<1>6. CASE Compute
  BY <1>6, Zenon DEF Compute, Drain
<1>7. CASE Advanced
  BY <1>7
     DEF Advanced, ShouldReset, LastControlEvents, DispatchControlCallbacks, Values,
         Events
<1>8. CASE Render
  BY <1>8, Zenon DEF Render
<1>9. CASE Act
  BY <1>9 DEF Act
<1>10. CASE Reset
  BY <1>10, Zenon DEF Reset, RequestReset
<1>11. CASE Stop
  BY <1>11, Zenon DEF Stop
<1>12. CASE \E command \in {"start", "stop", "reset"} : Message(command)
  <2>1. PICK command \in {"start", "stop", "reset"} : Message(command)
    BY <1>12
  <2>2. reset' = (reset \/ command = "reset") /\ (commanded' = TRUE \/ commanded' = commanded)
    BY <2>1 DEF Message
  <2>3. /\ UNCHANGED <<xr, closing, injectResetPending, pendingReset, active, shouldReset, acting>>
        /\ UNCHANGED <<callbackActive, delivered>>
    BY <2>1 DEF Message
  <2>4. QED
    BY <2>2, <2>3, Zenon
<1>13. CASE SessionRaises
  BY <1>13, Zenon DEF SessionRaises
<1>14. CASE StepFailsLate
  BY <1>14, Zenon DEF StepFailsLate, NoAction, TeardownDeadSession, Forgotten
<1>15. CASE Leave
  BY <1>15, Zenon DEF Leave
<1>16. CASE XrStarts
  BY <1>16, Zenon DEF XrStarts
<1>17. CASE XrStops
  BY <1>17, Zenon DEF XrStops
<1>18. CASE OnXrEnabledChanged
  BY <1>18, Zenon DEF OnXrEnabledChanged, TeardownDeadSession, Forgotten
<1>19. CASE OnPreShutdown
  BY <1>19, Zenon DEF OnPreShutdown, TeardownDeadSession, Forgotten
<1>20. CASE Retarget
  BY <1>20, Zenon DEF Retarget
<1>21. CASE WorkerCompletes
  BY <1>21, Zenon DEF WorkerCompletes
<1>22. QED
  BY <1>1, <1>2, <1>3, <1>4, <1>5, <1>6, <1>7, <1>8, <1>9, <1>10, <1>11, <1>12, <1>13,
     <1>14, <1>15, <1>16, <1>17, <1>18, <1>19, <1>20, <1>21 DEF Next, Proceed

\* The other variables keep their types; the levels sent are those of the queue.
LEMMA ValuesKept == IInv /\ Next => Values'
<1> SUFFICES ASSUME IInv, Next PROVE Values'
  OBVIOUS
<1> USE BoundsAssumption
    DEF IInv, Types, Values, Loop, InAdvance, Commands, States, Events, outside,
        processor, manager, lifecycle, script, dispatched, heard, given, counted
<1>1. CASE Start
  BY <1>1 DEF Start, Follows, FrameInv
<1>2. CASE TryStartSession
  BY <1>2 DEF TryStartSession
<1>3. CASE Deferred
  BY <1>3 DEF Deferred, NoAction
<1>4. CASE BeginStep
  BY <1>4 DEF BeginStep
<1>5. CASE StepFails
  BY <1>5 DEF StepFails, NoAction, TeardownDeadSession, Forgotten
<1>6. CASE Compute
  <2>1. RunToggle \in {Low, High}
    BY Tails DEF RunToggle, Pulses, Aimed
  <2>2. shadowState' \in States /\ executionState' \in States
    BY <1>6 DEF Compute, Drain, Toggle, ToggleTransition
  <2>3. prevToggleOutput' \in {Low, High} /\ prevPressed' \in {Low, High}
    BY <1>6, <2>1 DEF Compute, Drain, Toggle
  <2>4. context' \in {None} \cup Events
    <3>1. (executionState' = "running") \in BOOLEAN /\ reset \in BOOLEAN
      BY DEF Flags
    <3>2. QED
      BY <1>6, <3>1 DEF Compute
  <2>5. /\ pc' = "controlled" /\ session' = session /\ session # "none"
        /\ UNCHANGED <<cfg, faults, commands, prevControlIsActive, demos, accepted>>
        /\ UNCHANGED <<owed, cause, resets>>
    BY <1>6 DEF Compute, Follows, FrameInv
  <2>6. QED
    BY <2>2, <2>3, <2>4, <2>5
<1>7. CASE Advanced
  BY <1>7 DEF Advanced, ShouldReset, LastControlEvents, DispatchControlCallbacks
<1>8. CASE Render
  BY <1>8 DEF Render, Again
<1>9. CASE Act
  BY <1>9 DEF Act, Again, Pumping
<1>10. CASE Reset
  BY <1>10 DEF Reset, RequestReset, Again
<1>11. CASE Stop
  BY <1>11 DEF Stop
<1>12. CASE \E command \in {"start", "stop", "reset"} : Message(command)
  BY <1>12 DEF Message
<1>13. CASE SessionRaises
  BY <1>13 DEF SessionRaises
<1>14. CASE StepFailsLate
  BY <1>14 DEF StepFailsLate, NoAction, TeardownDeadSession, Forgotten
<1>15. CASE Leave
  BY <1>15 DEF Leave, Pumping
<1>16. CASE XrStarts
  BY <1>16 DEF XrStarts
<1>17. CASE XrStops
  BY <1>17 DEF XrStops
<1>18. CASE OnXrEnabledChanged
  BY <1>18 DEF OnXrEnabledChanged, TeardownDeadSession, Forgotten
<1>19. CASE OnPreShutdown
  BY <1>19 DEF OnPreShutdown, TeardownDeadSession, Forgotten
<1>20. CASE Retarget
  BY <1>20 DEF Retarget
<1>21. CASE WorkerCompletes
  BY <1>21 DEF WorkerCompletes
<1>22. QED
  BY <1>1, <1>2, <1>3, <1>4, <1>5, <1>6, <1>7, <1>8, <1>9, <1>10, <1>11, <1>12, <1>13,
     <1>14, <1>15, <1>16, <1>17, <1>18, <1>19, <1>20, <1>21 DEF Next, Proceed

(***************************************************************************)
(* The parts of the invariant                                              *)
(***************************************************************************)
\* Messages and frames are all that touch the levels and the machine.
LEMMA PulsesKept == IInv /\ Next => Pulses'
<1> SUFFICES ASSUME IInv, Next PROVE Pulses'
  OBVIOUS
<1>1. ASSUME NEW command \in {"start", "stop", "reset"}, Message(command) PROVE Pulses'
  <2>1. UNCHANGED <<shadowState, prevToggleOutput, executionState, prevPressed>>
    BY <1>1 DEF Message, manager
  <2>2. Mirror'
    BY <2>1 DEF IInv, Pulses, Mirror
  <2>3. CASE command = "reset" \/ runToggleQueue # <<>>
    <3>1. UNCHANGED <<runToggleQueue, accepted>>
      BY <1>1, <2>3 DEF Message, Enqueue
    <3>2. QED
      BY <2>1, <2>2, <3>1 DEF IInv, Pulses, Aimed
  <2>4. CASE command # "reset" /\ runToggleQueue = <<>>
    <3>1. runToggleQueue' = Enqueue(command) /\ accepted' = command
      BY <1>1, <2>4 DEF Message
    <3>2. QED
      BY <2>1, <2>2, <2>4, <3>1, EnqueueAims DEF IInv, Types, Pulses
  <2>5. QED
    BY <2>3, <2>4
<1>2. CASE Compute
  BY <1>2, DrainAims DEF Compute, heard, IInv, Types, Pulses
<1>3. CASE UNCHANGED <<shadowState, runToggleQueue, prevToggleOutput, manager, accepted>>
  BY <1>3 DEF IInv, Pulses, Mirror, Aimed, manager
<1>4. QED
  BY <1>1, <1>2, <1>3
     DEF Next, Proceed, Start, TryStartSession, Deferred, BeginStep, StepFails,
         Retarget, Advanced, Render, Act, Reset, Stop, SessionRaises, StepFailsLate, WorkerCompletes, Leave,
         XrStarts, XrStops, OnXrEnabledChanged, OnPreShutdown, RequestReset, processor,
         heard

\* The script and the session keep to the frame, and to the machine.
LEMMA FollowsKept == IInv /\ Next => Follows'
<1> SUFFICES ASSUME IInv, Next PROVE Follows'
  OBVIOUS
<1> USE NoneAssumption, ConfigsAssumption
    DEF IInv, Types, Flags, Values, Events, Loop, InAdvance, ShouldReset,
        LastControlEvents, Follows, FrameInv, Delivery, OwedInv, CommandInv, Echo,
        LastReset, NoneLeft, Quiet, ScriptFollowsManager, SilentInv,
        InjectedResetDelivered, ResetsAnswered, NoResetLoop, outside, processor,
        manager, lifecycle, script, dispatched, heard, given, counted
<1>1. CASE Start
  BY <1>1 DEF Start
<1>2. CASE TryStartSession
  BY <1>2 DEF TryStartSession
<1>3. CASE Deferred
  BY <1>3 DEF Deferred, NoAction
<1>4. CASE BeginStep
  BY <1>4 DEF BeginStep
<1>5. CASE StepFails
  BY <1>5 DEF StepFails, NoAction, TeardownDeadSession, Forgotten
<1>6. CASE Compute
  BY <1>6 DEF Compute, Drain, Toggle
<1>7. CASE Advanced
  BY <1>7 DEF Advanced, DispatchControlCallbacks, ShouldReset, LastControlEvents
<1>8. CASE Render
  BY <1>8 DEF Render, Again
<1>9. CASE Act
  BY <1>9 DEF Act, Again
<1>10. CASE Reset
  BY <1>10 DEF Reset, Again, RequestReset
<1>11. CASE Stop
  BY <1>11 DEF Stop
<1>12. CASE \E command \in {"start", "stop", "reset"} : Message(command)
  BY <1>12 DEF Message
<1>13. CASE SessionRaises
  BY <1>13 DEF SessionRaises
<1>14. CASE StepFailsLate
  BY <1>14 DEF StepFailsLate, NoAction, TeardownDeadSession, Forgotten
<1>15. CASE Leave
  BY <1>15 DEF Leave, Pumping
<1>16. CASE XrStarts
  BY <1>16 DEF XrStarts
<1>17. CASE XrStops
  BY <1>17 DEF XrStops
<1>18. CASE OnXrEnabledChanged
  BY <1>18 DEF OnXrEnabledChanged, TeardownDeadSession, Forgotten, Pumping
<1>19. CASE OnPreShutdown
  BY <1>19 DEF OnPreShutdown, TeardownDeadSession, Forgotten, Pumping
<1>20. CASE Retarget
  BY <1>20 DEF Retarget
<1>21. CASE WorkerCompletes
  BY <1>21 DEF WorkerCompletes
<1>22. QED
  BY <1>1, <1>2, <1>3, <1>4, <1>5, <1>6, <1>7, <1>8, <1>9, <1>10, <1>11, <1>12, <1>13,
     <1>14, <1>15, <1>16, <1>17, <1>18, <1>19, <1>20, <1>21 DEF Next, Proceed

\* Resets in both directions keep on their way.
LEMMA DeliveryKept == IInv /\ Next => Delivery'
<1> SUFFICES ASSUME IInv, Next PROVE Delivery'
  OBVIOUS
<1> USE NoneAssumption, ConfigsAssumption
    DEF IInv, Types, Flags, Values, Events, Loop, InAdvance, ShouldReset,
        LastControlEvents, Follows, FrameInv, Delivery, OwedInv, CommandInv, Echo,
        LastReset, NoneLeft, Quiet, ScriptFollowsManager, SilentInv,
        InjectedResetDelivered, ResetsAnswered, NoResetLoop, outside, processor,
        manager, lifecycle, script, dispatched, heard, given, counted
<1>1. CASE Start
  BY <1>1 DEF Start
<1>2. CASE TryStartSession
  BY <1>2 DEF TryStartSession
<1>3. CASE Deferred
  BY <1>3 DEF Deferred, NoAction
<1>4. CASE BeginStep
  BY <1>4 DEF BeginStep
<1>5. CASE StepFails
  BY <1>5 DEF StepFails, NoAction, TeardownDeadSession, Forgotten
<1>6. CASE Compute
  BY <1>6 DEF Compute, Drain, Toggle
<1>7. CASE Advanced
  BY <1>7 DEF Advanced, DispatchControlCallbacks, ShouldReset, LastControlEvents
<1>8. CASE Render
  BY <1>8 DEF Render, Again
<1>9. CASE Act
  BY <1>9 DEF Act, Again
<1>10. CASE Reset
  BY <1>10 DEF Reset, Again, RequestReset
<1>11. CASE Stop
  BY <1>11 DEF Stop
<1>12. CASE \E command \in {"start", "stop", "reset"} : Message(command)
  BY <1>12 DEF Message
<1>13. CASE SessionRaises
  BY <1>13 DEF SessionRaises
<1>14. CASE StepFailsLate
  BY <1>14 DEF StepFailsLate, NoAction, TeardownDeadSession, Forgotten
<1>15. CASE Leave
  BY <1>15 DEF Leave, Pumping
<1>16. CASE XrStarts
  BY <1>16 DEF XrStarts
<1>17. CASE XrStops
  BY <1>17 DEF XrStops
<1>18. CASE OnXrEnabledChanged
  BY <1>18 DEF OnXrEnabledChanged, TeardownDeadSession, Forgotten, Pumping
<1>19. CASE OnPreShutdown
  BY <1>19 DEF OnPreShutdown, TeardownDeadSession, Forgotten, Pumping
<1>20. CASE Retarget
  BY <1>20 DEF Retarget
<1>21. CASE WorkerCompletes
  BY <1>21 DEF WorkerCompletes
<1>22. QED
  BY <1>1, <1>2, <1>3, <1>4, <1>5, <1>6, <1>7, <1>8, <1>9, <1>10, <1>11, <1>12, <1>13,
     <1>14, <1>15, <1>16, <1>17, <1>18, <1>19, <1>20, <1>21 DEF Next, Proceed

\* The resets of one cause keep coming to an end.
LEMMA EchoKept == IInv /\ Next => Echo'
<1> SUFFICES ASSUME IInv, Next PROVE Echo'
  OBVIOUS
<1> USE NoneAssumption, ConfigsAssumption
    DEF IInv, Types, Flags, Values, Events, Loop, InAdvance, ShouldReset,
        LastControlEvents, Follows, FrameInv, Delivery, OwedInv, CommandInv, Echo,
        LastReset, NoneLeft, Quiet, ScriptFollowsManager, SilentInv,
        InjectedResetDelivered, ResetsAnswered, NoResetLoop, outside, processor,
        manager, lifecycle, script, dispatched, heard, given, counted
<1>1. CASE Start
  BY <1>1 DEF Start
<1>2. CASE TryStartSession
  BY <1>2 DEF TryStartSession
<1>3. CASE Deferred
  BY <1>3 DEF Deferred, NoAction
<1>4. CASE BeginStep
  BY <1>4 DEF BeginStep
<1>5. CASE StepFails
  BY <1>5 DEF StepFails, NoAction, TeardownDeadSession, Forgotten
<1>6. CASE Compute
  BY <1>6 DEF Compute, Drain, Toggle
<1>7. CASE Advanced
  BY <1>7 DEF Advanced, DispatchControlCallbacks, ShouldReset, LastControlEvents
<1>8. CASE Render
  BY <1>8 DEF Render, Again
<1>9. CASE Act
  BY <1>9 DEF Act, Again
<1>10. CASE Reset
  BY <1>10 DEF Reset, Again, RequestReset
<1>11. CASE Stop
  BY <1>11 DEF Stop
<1>12. CASE \E command \in {"start", "stop", "reset"} : Message(command)
  BY <1>12 DEF Message
<1>13. CASE SessionRaises
  BY <1>13 DEF SessionRaises
<1>14. CASE StepFailsLate
  BY <1>14 DEF StepFailsLate, NoAction, TeardownDeadSession, Forgotten
<1>15. CASE Leave
  BY <1>15 DEF Leave, Pumping
<1>16. CASE XrStarts
  BY <1>16 DEF XrStarts
<1>17. CASE XrStops
  BY <1>17 DEF XrStops
<1>18. CASE OnXrEnabledChanged
  BY <1>18 DEF OnXrEnabledChanged, TeardownDeadSession, Forgotten, Pumping
<1>19. CASE OnPreShutdown
  BY <1>19 DEF OnPreShutdown, TeardownDeadSession, Forgotten, Pumping
<1>20. CASE Retarget
  BY <1>20 DEF Retarget
<1>21. CASE WorkerCompletes
  BY <1>21 DEF WorkerCompletes
<1>22. QED
  BY <1>1, <1>2, <1>3, <1>4, <1>5, <1>6, <1>7, <1>8, <1>9, <1>10, <1>11, <1>12, <1>13,
     <1>14, <1>15, <1>16, <1>17, <1>18, <1>19, <1>20, <1>21 DEF Next, Proceed

--------------------------------------------------------------------------------
\* The program starts in the invariant.
LEMMA Initially == Init => IInv
<1> SUFFICES ASSUME Init PROVE IInv
  OBVIOUS
<1> USE NoneAssumption, BoundsAssumption, ConfigsAssumption DEF Init
<1>1. Types
  <2>1. Flags
    BY Zenon DEF Flags
  <2>2. Values
    BY DEF Values, Commands, States, Loop, InAdvance
  <2>3. QED
    BY <2>1, <2>2 DEF Types
<1>2. Pulses
  BY DEF Pulses, Mirror, Aimed
<1>3. Follows
  BY
     DEF Follows, FrameInv, SilentInv, ScriptFollowsManager, ShouldReset,
         LastControlEvents
<1>4. Delivery /\ Echo
  BY
     DEF Delivery, OwedInv, CommandInv, InjectedResetDelivered, ResetsAnswered, Echo,
         LastReset, NoneLeft, NoResetLoop, Loop, InAdvance, ShouldReset,
         LastControlEvents
<1>5. QED
  BY <1>1, <1>2, <1>3, <1>4 DEF IInv

\* It depends on the variables only.
LEMMA Stutters == IInv /\ UNCHANGED vars => IInv'
BY
   DEF vars, outside, processor, manager, lifecycle, script, dispatched, heard, given,
       counted, IInv, Types, Flags, Values, Pulses, Mirror, Aimed, Follows, FrameInv,
       SilentInv, ScriptFollowsManager, Delivery, OwedInv, CommandInv,
       InjectedResetDelivered, ResetsAnswered, Echo, LastReset, NoneLeft, Quiet,
       NoResetLoop, ShouldReset, LastControlEvents

\* It holds in every state the program reaches.
LEMMA Inductive == Spec => []IInv
<1>1. IInv /\ Next => IInv'
  BY FlagsKept, ValuesKept, PulsesKept, FollowsKept, DeliveryKept, EchoKept
     DEF IInv, Types
<1>2. IInv /\ [Next]_vars => IInv'
  BY <1>1, Stutters
<1>3. QED
  BY Initially, <1>2, PTL DEF Spec

\* Every variable keeps its type, and at most three levels ever wait.
THEOREM TypeCorrect == Spec => []TypeOK
<1>1. IInv => TypeOK
  BY AimedType DEF IInv, Types, Flags, Values, Pulses, TypeOK
<1>2. QED
  BY <1>1, Inductive, PTL

\* For any number of commands, lost sessions and failed steps: the copy of the
\* machine that the processor aims with is exact, so that an accepted command
\* holds once its pulses are sent.
THEOREM CommandHolds == Spec => []AcceptedCommandHolds
<1>1. IInv => AcceptedCommandHolds
  BY Tails DEF IInv, Pulses, Mirror, Aimed, AcceptedCommandHolds
<1>2. QED
  BY <1>1, Inductive, PTL

\* For every configuration: the flag of the loop says what the machine says
\* wherever the environment may be stepped, and no callback contradicts it.
THEOREM ScriptFollows == Spec => []ScriptFollowsManager
BY Inductive, PTL DEF IInv, Follows

\* However many sessions are lost and steps fail before the processor has taken
\* it, a reset by the script is handed to the retargeters before an action comes to
\* the script; where they run in the step, the first action after it is theirs after
\* that reset, if that step does not raise.
THEOREM ResetReachesRetargeters == Spec => []InjectedResetDelivered
BY Inductive, PTL DEF IInv, Delivery

\* The echo of a reset dies out after at most one more reset, whatever is
\* lost, fails or arrives meanwhile.
THEOREM EchoEnds == Spec => []NoResetLoop
BY Inductive, PTL DEF IInv, Echo

\* A reset command is known to the script in its own frame, and to no other.
THEOREM CommandsAnswered == Spec => []ResetsAnswered
BY Inductive, PTL DEF IInv, Delivery
================================================================================
