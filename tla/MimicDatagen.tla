------------------------------ MODULE MimicDatagen ------------------------------
(* Asynchronous demonstration generation of isaaclab_mimic.                      *)
(*                                                                               *)
(* One asyncio task per environment (run_data_generator, which calls             *)
(* DataGenerator.generate and MultiWaypoint.execute) and one synchronous loop    *)
(* (env_loop) that owns the simulator.  They meet at two asyncio queues: a task  *)
(* asks for a reset of its environment or hands over an action and then waits in *)
(* Queue.join(); env_loop drains the reset queue, and steps all environments at  *)
(* once when the action queue holds num_envs actions.  Everything runs in one    *)
(* thread: a task moves only while env_loop runs the event loop, and keeps       *)
(* control up to its next suspension point, so an action of this module is the   *)
(* code between two suspension points.                                           *)
(*                                                                               *)
(* What the waypoints are is left to SubtaskConstraints; here an attempt is a    *)
(* finite, non-empty run of steps with an arbitrary success signal.              *)
EXTENDS Integers, FiniteSets, SequencesExt

CONSTANTS
    Envs,           \* environment indices, one generator task each
    NumTrials,      \* datagen_config.generation_num_trials
    Configs,        \* the other fields of datagen_config that are explored
    MayFail,        \* explore exceptions, interrupts and a stopped simulation
    MaxSteps,       \* bound: longest attempt, in environment steps
    MaxFailures     \* bound: failed attempts that are counted

ASSUME EnvsAssumption == IsFiniteSet(Envs) /\ Envs # {}
ASSUME NumTrialsAssumption == NumTrials \in Nat \ {0}
\* generation_guarantee, generation_keep_failed and use_skillgen
DatagenConfig == [guarantee : BOOLEAN, keep_failed : BOOLEAN, skillgen : BOOLEAN]
ASSUME ConfigsAssumption == Configs \subseteq DatagenConfig /\ MayFail \in BOOLEAN
ASSUME BoundsAssumption == MaxSteps \in Nat \ {0} /\ MaxFailures \in Nat

VARIABLES
    datagen_config,      \* fixed for the run
    main,                \* where env_loop and its caller are
    exit,                \* why env_loop was left ("running" until then)
    cancel,              \* data_gen_tasks.cancel() reached the tasks
    due,                 \* tasks the current run of the event loop must still resume
    gen,                 \* where each generator task is
    waypoints,           \* actions handed over in the current attempt
    generated_success,
    env_reset_queue, reset_unfinished,
    env_action_queue, action_unfinished,
    actions,             \* rows of the action tensor that were filled
    episodes,            \* RecorderManager._episodes
    exported,            \* exported_{successful,failed}_episode_count
    file,                \* episodes in the dataset files
    num_success, num_failures, num_attempts,
    prev_num_attempts,
    aborted              \* attempts given up because planning failed

exitVars  == <<datagen_config, exit, cancel>>
loopVars  == <<exitVars, main, due>>
taskVars  == <<gen, waypoints, generated_success>>
queueVars == <<env_reset_queue, reset_unfinished, env_action_queue,
               action_unfinished, actions>>
recVars   == <<episodes, exported, file>>
countVars == <<num_success, num_failures, num_attempts, aborted>>
vars == <<loopVars, taskVars, queueVars, recVars, countVars, prev_num_attempts>>

NumEnvs == Cardinality(Envs)

\* where a task is: suspended in a join(), ready to be resumed, or over
Waiting  == {"resetting", "acting"}
Ready    == {"start", "reset", "plan", "act", "acted"}
Finished == {"raised", "failed", "cancelled"}

EmptyEpisode == [initial |-> 0, steps |-> 0]
IsEmpty(episode) == episode = EmptyEpisode

Tally == [succeeded : Nat, failed : Nat]

TypeOK ==
    /\ datagen_config \in DatagenConfig
    /\ main \in {"check", "tick", "drain", "gather", "cleanup", "closed"}
    /\ exit \in {"running", "target", "stopped", "task_error", "env_error"}
    /\ cancel \in BOOLEAN
    /\ due \in SUBSET Envs
    /\ gen \in [Envs -> Waiting \cup Ready \cup Finished]
    /\ waypoints \in [Envs -> Nat]
    /\ generated_success \in [Envs -> BOOLEAN]
    /\ env_reset_queue \in Seq(Envs)
    /\ reset_unfinished \in Nat
    /\ env_action_queue \in Seq(Envs)
    /\ action_unfinished \in Nat
    /\ actions \in SUBSET Envs
    /\ episodes \in [Envs -> [initial : Nat, steps : Nat]]
    /\ exported \in Tally
    /\ file \in Tally
    /\ num_success \in Nat
    /\ num_failures \in Nat
    /\ num_attempts \in Nat
    /\ prev_num_attempts \in Nat
    /\ aborted \in Nat

\* main() resets every environment before it creates the tasks, so each episode
\* already holds an initial state
Init ==
    /\ datagen_config \in Configs
    /\ main = "check" /\ exit = "running" /\ cancel = FALSE /\ due = {}
    /\ gen = [e \in Envs |-> "start"]
    /\ waypoints = [e \in Envs |-> 0]
    /\ generated_success = [e \in Envs |-> FALSE]
    /\ env_reset_queue = <<>> /\ reset_unfinished = 0
    /\ env_action_queue = <<>> /\ action_unfinished = 0
    /\ actions = {}
    /\ episodes = [e \in Envs |-> [initial |-> 1, steps |-> 0]]
    /\ exported = [succeeded |-> 0, failed |-> 0]
    /\ file = [succeeded |-> 0, failed |-> 0]
    /\ num_success = 0 /\ num_failures = 0 /\ num_attempts = 0
    /\ prev_num_attempts = 0
    /\ aborted = 0

--------------------------------------------------------------------------------
(* Generator tasks *)

\* The event loop resumes task e at suspension point `at`.  In cleanup a task
\* that was not cancelled gets at most the one step that was already scheduled.
Resumes(e, at) ==
    /\ gen[e] = at
    /\ \/ main \in {"tick", "gather"}
       \/ main = "cleanup" /\ ~cancel /\ e \in due
    /\ due' = due \ {e}
    /\ UNCHANGED <<exitVars, main>>

\* Mutant: the recorder is not cleared at the head of generate().
BeginAttemptKeepingEpisode(e) ==
    /\ gen' = [gen EXCEPT ![e] = "resetting"]
    /\ env_reset_queue' = Append(env_reset_queue, e)
    /\ reset_unfinished' = reset_unfinished + 1
    /\ UNCHANGED <<episodes, env_action_queue, action_unfinished, actions>>

\* Mutant: the request is queued but its join() is forgotten.
BeginAttemptWithoutJoin(e) ==
    /\ gen' = [gen EXCEPT ![e] = "reset"]
    /\ episodes' = [episodes EXCEPT ![e] = EmptyEpisode]
    /\ env_reset_queue' = Append(env_reset_queue, e)
    /\ reset_unfinished' = reset_unfinished + 1
    /\ UNCHANGED <<env_action_queue, action_unfinished, actions>>

\* the head of generate(): clear the recorder, ask for a reset, join the queue
BeginAttempt(e) ==
    /\ gen' = [gen EXCEPT ![e] = "resetting"]
    /\ episodes' = [episodes EXCEPT ![e] = EmptyEpisode]
    /\ env_reset_queue' = Append(env_reset_queue, e)
    /\ reset_unfinished' = reset_unfinished + 1
    /\ UNCHANGED <<env_action_queue, action_unfinished, actions>>

StartTask(e) ==
    /\ Resumes(e, "start")
    /\ BeginAttempt(e)
    /\ UNCHANGED <<waypoints, generated_success, exported, file, countVars,
                   prev_num_attempts>>

\* the reset is done: read the initial state and set up the attempt
ResumeAfterReset(e) ==
    /\ Resumes(e, "reset")
    /\ gen' = [gen EXCEPT ![e] = "plan"]
    /\ waypoints' = [waypoints EXCEPT ![e] = 0]
    /\ generated_success' = [generated_success EXCEPT ![e] = FALSE]
    /\ UNCHANGED <<queueVars, recVars, countVars, prev_num_attempts>>

\* trajectories and constraints are worked out, next waypoints chosen
PlanWaypoints(e) ==
    /\ Resumes(e, "plan")
    /\ gen' = [gen EXCEPT ![e] = "act"]
    /\ UNCHANGED <<waypoints, generated_success, queueVars, recVars, countVars,
                   prev_num_attempts>>

\* skillgen: the motion planner fails, generate() returns without exporting and
\* run_data_generator goes straight on to the next attempt
PlanningFails(e) ==
    /\ datagen_config.skillgen
    /\ Resumes(e, "plan")
    /\ IF num_failures < MaxFailures
         THEN /\ num_failures' = num_failures + 1
              /\ num_attempts' = num_attempts + 1
              /\ aborted' = aborted + 1
         ELSE UNCHANGED <<num_failures, num_attempts, aborted>>
    /\ BeginAttempt(e)
    /\ UNCHANGED <<waypoints, generated_success, exported, file, num_success,
                   prev_num_attempts>>

\* Mutant: the action is handed over but its join() is forgotten.
PutActionWithoutJoin(e) ==
    /\ Resumes(e, "act")
    /\ gen' = [gen EXCEPT ![e] = "acted"]
    /\ waypoints' = [waypoints EXCEPT ![e] = @ + 1]
    /\ env_action_queue' = Append(env_action_queue, e)
    /\ action_unfinished' = action_unfinished + 1
    /\ UNCHANGED <<generated_success, env_reset_queue, reset_unfinished, actions,
                   recVars, countVars, prev_num_attempts>>

\* MultiWaypoint.execute: hand the action over and join the queue
PutAction(e) ==
    /\ Resumes(e, "act")
    /\ gen' = [gen EXCEPT ![e] = "acting"]
    /\ waypoints' = [waypoints EXCEPT ![e] = @ + 1]
    /\ env_action_queue' = Append(env_action_queue, e)
    /\ action_unfinished' = action_unfinished + 1
    /\ UNCHANGED <<generated_success, env_reset_queue, reset_unfinished, actions,
                   recVars, countVars, prev_num_attempts>>

\* execute() returns with the success term; the attempt goes on
ContinueAttempt(e, exec_success) ==
    /\ waypoints[e] < MaxSteps
    /\ Resumes(e, "acted")
    /\ gen' = [gen EXCEPT ![e] = "plan"]
    /\ generated_success' = [generated_success EXCEPT ![e] = @ \/ exec_success]
    /\ UNCHANGED <<waypoints, queueVars, recVars, countVars, prev_num_attempts>>

\* RecorderManager.export_episodes for one environment
ExportEpisode(e, success) ==
    IF IsEmpty(episodes[e])
      THEN UNCHANGED <<exported, file>>
      ELSE IF success
             THEN /\ exported' = [exported EXCEPT !.succeeded = @ + 1]
                  /\ file' = [file EXCEPT !.succeeded = @ + 1]
             ELSE /\ exported' = [exported EXCEPT !.failed = @ + 1]
                  /\ file' = IF datagen_config.keep_failed
                               THEN [file EXCEPT !.failed = @ + 1] ELSE file

\* execute() returns, every end effector is through its subtasks: set the success
\* of the episode, export it, count the attempt and begin the next one
FinishAttempt(e, exec_success) ==
    LET success == generated_success[e] \/ exec_success IN
    /\ success \/ num_failures < MaxFailures
    /\ Resumes(e, "acted")
    /\ ExportEpisode(e, success)
    /\ num_success' = IF success THEN num_success + 1 ELSE num_success
    /\ num_failures' = IF success THEN num_failures ELSE num_failures + 1
    /\ num_attempts' = num_attempts + 1
    /\ generated_success' = [generated_success EXCEPT ![e] = success]
    /\ BeginAttempt(e)
    /\ UNCHANGED <<waypoints, prev_num_attempts, aborted>>

\* generate() raises, at any point where the task runs: run_data_generator re-raises
\* and the task is over
TaskRaises(e, at) ==
    /\ MayFail
    /\ Resumes(e, at)
    /\ gen' = [gen EXCEPT ![e] = "raised"]
    /\ UNCHANGED <<waypoints, generated_success, queueVars, recVars, countVars,
                   prev_num_attempts>>

\* the gathered future learns that a task raised: from here on it is done.  The task's
\* callback is queued behind what was ready when the task raised.
GatherNotices(e) ==
    /\ gen[e] = "raised"
    /\ main \in {"tick", "gather", "cleanup"}
    /\ e \in due \/ \A t \in due : gen[t] = "raised"
    /\ gen' = [gen EXCEPT ![e] = "failed"]
    /\ due' = due \ {e}
    /\ UNCHANGED <<exitVars, main, waypoints, generated_success, queueVars,
                   recVars, countVars, prev_num_attempts>>

GeneratorStep(e) ==
    \/ StartTask(e) \/ ResumeAfterReset(e) \/ PlanWaypoints(e) \/ PlanningFails(e)
    \/ PutAction(e)
    \/ \E ok \in BOOLEAN : ContinueAttempt(e, ok) \/ FinishAttempt(e, ok)
    \/ \E at \in Ready : TaskRaises(e, at)
    \/ GatherNotices(e)

--------------------------------------------------------------------------------
(* env_loop and the cleanup of its caller *)

Runnable(g) == {e \in Envs : g[e] \in Ready \cup {"raised"}}

\* env_loop is left and the caller calls data_gen_tasks.cancel(): it reaches the
\* tasks only if the gathered future is not done yet
LeaveLoop(reason) ==
    /\ main' = "cleanup"
    /\ exit' = reason
    /\ cancel' = (\A e \in Envs : gen'[e] # "failed")
    /\ due' = Runnable(gen')

\* an action is still missing: run the event loop for one sleep(0)
RunTasks ==
    /\ main = "check"
    /\ Len(env_action_queue) # NumEnvs
    /\ main' = "tick"
    /\ due' = Runnable(gen)
    /\ UNCHANGED <<exitVars, taskVars, queueVars, recVars, countVars,
                   prev_num_attempts>>

\* Mutant: env_loop is not given data_gen_tasks.
TasksRanUnwatched ==
    /\ main = "tick"
    /\ due = {}
    /\ main' = "drain"
    /\ UNCHANGED <<exitVars, due, taskVars, queueVars, recVars, countVars,
                   prev_num_attempts>>

\* sleep(0) is over: every task that was ready before it has been resumed
TasksRan ==
    /\ main = "tick"
    /\ due = {}
    /\ UNCHANGED <<datagen_config, taskVars, queueVars, recVars, countVars,
                   prev_num_attempts>>
    /\ IF \E e \in Envs : gen[e] = "failed"
         THEN LeaveLoop("task_error")
         ELSE main' = "drain" /\ UNCHANGED <<exit, cancel, due>>

\* task_done() of the last unfinished item wakes everyone in join()
WakeIf(done, from, to) ==
    gen' = [e \in Envs |-> IF done /\ gen[e] = from THEN to ELSE gen[e]]

\* one request of the reset queue: env.reset([e]) records what is left of the old
\* episode as failed, clears the recorder and records the new initial state
ResetEnv ==
    /\ main = "drain"
    /\ env_reset_queue # <<>>
    /\ LET e == Head(env_reset_queue) IN
         /\ ExportEpisode(e, FALSE)
         /\ episodes' = [episodes EXCEPT ![e] = [initial |-> 1, steps |-> 0]]
    /\ env_reset_queue' = Tail(env_reset_queue)
    /\ reset_unfinished' = reset_unfinished - 1
    /\ WakeIf(reset_unfinished = 1, "resetting", "reset")
    /\ UNCHANGED <<loopVars, waypoints, generated_success, env_action_queue,
                   action_unfinished, actions, countVars, prev_num_attempts>>

ResetsDone ==
    /\ main = "drain"
    /\ env_reset_queue = <<>>
    /\ main' = "check"
    /\ UNCHANGED <<exitVars, due, taskVars, queueVars, recVars, countVars,
                   prev_num_attempts>>

\* Mutant: the loop steps as soon as any action is there.
GetActionsEarly ==
    /\ main = "check"
    /\ env_action_queue # <<>>
    /\ main' = "gather"
    /\ actions' = ToSet(env_action_queue)
    /\ env_action_queue' = <<>>
    /\ UNCHANGED <<exitVars, due, taskVars, env_reset_queue, reset_unfinished,
                   action_unfinished, recVars, countVars, prev_num_attempts>>

\* every action is there: take them all off the queue into the action tensor
GetActions ==
    /\ main = "check"
    /\ Len(env_action_queue) = NumEnvs
    /\ main' = "gather"
    /\ actions' = ToSet(env_action_queue)
    /\ env_action_queue' = <<>>
    /\ UNCHANGED <<exitVars, due, taskVars, env_reset_queue, reset_unfinished,
                   action_unfinished, recVars, countVars, prev_num_attempts>>

\* Mutant: generation_guarantee is ignored.
TargetAttempted ==
    /\ prev_num_attempts # num_attempts
    /\ num_attempts >= NumTrials

TargetReached ==
    /\ prev_num_attempts # num_attempts
    /\ (IF datagen_config.guarantee THEN num_success ELSE num_attempts) >= NumTrials

\* env.step records one step of every environment; task_done() for every action
\* releases the tasks; then the loop decides whether to go on
StepEnv(is_stopped) ==
    /\ is_stopped => MayFail
    /\ main = "gather"
    /\ episodes' = [e \in Envs |-> [episodes[e] EXCEPT !.steps = @ + 1]]
    /\ action_unfinished' = action_unfinished - NumEnvs
    /\ WakeIf(action_unfinished = NumEnvs, "acting", "acted")
    /\ actions' = {}
    /\ prev_num_attempts' = num_attempts
    /\ IF TargetReached THEN LeaveLoop("target")
       ELSE IF is_stopped THEN LeaveLoop("stopped")
       ELSE main' = "check" /\ UNCHANGED <<exit, cancel, due>>
    /\ UNCHANGED <<datagen_config, waypoints, generated_success, env_reset_queue,
                   reset_unfinished, env_action_queue, exported, file, countVars>>

\* env.step or env.reset raises, or the user interrupts
EnvRaises ==
    /\ MayFail
    /\ main \in {"tick", "drain", "gather"}
    /\ UNCHANGED <<datagen_config, taskVars, queueVars, recVars, countVars,
                   prev_num_attempts>>
    /\ LeaveLoop("env_error")

\* a cancelled task gets CancelledError at its suspension point
TaskCancelled(e) ==
    /\ main = "cleanup" /\ cancel
    /\ gen[e] \notin Finished
    /\ gen' = [gen EXCEPT ![e] = "cancelled"]
    /\ due' = due \ {e}
    /\ UNCHANGED <<exitVars, main, waypoints, generated_success, queueVars,
                   recVars, countVars, prev_num_attempts>>

\* run_until_complete(data_gen_tasks) returns once the gathered future is done: the
\* cancelled tasks all end in its first pass, or, when the future was done before,
\* that pass only runs what was already scheduled; then env.close()
CloseEnv ==
    /\ main = "cleanup"
    /\ IF cancel THEN \A e \in Envs : gen[e] \in {"cancelled", "failed"}
                 ELSE due = {} /\ \E e \in Envs : gen[e] = "failed"
    /\ main' = "closed"
    /\ UNCHANGED <<exitVars, due, taskVars, queueVars, recVars, countVars,
                   prev_num_attempts>>

Terminated == main = "closed" /\ UNCHANGED vars

EnvLoopStep ==
    \/ RunTasks \/ TasksRan \/ ResetEnv \/ ResetsDone \/ GetActions
    \/ \E is_stopped \in BOOLEAN : StepEnv(is_stopped)
    \/ EnvRaises \/ CloseEnv

Next ==
    \/ EnvLoopStep
    \/ \E e \in Envs : GeneratorStep(e) \/ TaskCancelled(e)
    \/ Terminated

\* the one thread of the process keeps running
Spec == Init /\ [][Next]_vars
FairSpec == Spec /\ WF_vars(Next)
--------------------------------------------------------------------------------
(* Properties *)

\* The two queues and the tasks agree: an environment has an action on its way
\* exactly while its task waits in the action queue's join, each one once, and a
\* reset request exactly while its task waits for a reset not yet served.  This is
\* what makes qsize() == num_envs mean "one action from every environment".
Distinct(queue) ==
    \A i, j \in 1 .. Len(queue) : queue[i] = queue[j] => i = j

ActingEnvs == {e \in Envs : gen[e] = "acting"}

QueuesMatchTasks ==
    exit = "running" =>
      /\ Distinct(env_action_queue) /\ Distinct(env_reset_queue)
      /\ ToSet(env_action_queue) \cup actions = ActingEnvs
      /\ \A e \in ToSet(env_reset_queue) : gen[e] = "resetting"

\* No environment is ever stepped with a row of the action tensor left at zero.
EveryRowFilled == main = "gather" => actions = Envs

\* The episode recorded for a running attempt is the attempt: one initial state,
\* taken after its own reset, and one recorded step per action it handed over --
\* never a step of an earlier attempt or one made while the task was not acting.
EpisodeIsAttempt ==
    \A e \in Envs :
      /\ gen[e] \in {"plan", "act", "acted"} =>
            episodes[e] = [initial |-> 1, steps |-> waypoints[e]]
      /\ gen[e] = "acting" =>
            episodes[e] = [initial |-> 1, steps |-> waypoints[e] - 1]

\* The statistics, the recorder's counters and the dataset files tell one story:
\* every success is in the file once, every failure that was not a planning
\* failure was exported as failed, and env.reset exports nothing by itself.
BooksBalance ==
    /\ num_attempts = num_success + num_failures
    /\ exported = [succeeded |-> num_success, failed |-> num_failures - aborted]
    /\ file = [succeeded |-> num_success,
               failed |-> IF datagen_config.keep_failed
                            THEN num_failures - aborted ELSE 0]

\* When the loop says it reached its target, the dataset holds that many demos;
\* and as every attempt takes a step without skillgen, at most one attempt per
\* environment is started beyond the last one that was asked for.
TargetDelivered ==
    /\ exit = "target" =>
         IF datagen_config.guarantee THEN file.succeeded >= NumTrials
                      ELSE exported.succeeded + exported.failed + aborted >= NumTrials
    /\ ~datagen_config.guarantee /\ ~datagen_config.skillgen =>
         num_attempts < NumTrials + NumEnvs

\* A generator that raises ends the generation, in the pass of the event loop in which
\* the gathered future hears of it and although cancel() then reaches nobody: from
\* there on no environment is reset or stepped, and of what the other generators are
\* scheduled to do nothing is exported or becomes a success.  What they may still do
\* is begin the next attempt and, with skillgen, give attempts up.
NothingAfterFailure ==
    [][(\E e \in Envs : gen[e] = "failed") =>
         /\ main' \in {"tick", "cleanup", "closed"}
         /\ UNCHANGED <<exported, file, num_success>>
         /\ \A e \in Envs : episodes'[e] \in {episodes[e], EmptyEpisode}]_vars

\* Without skillgen, and with as many successes as the target needs (MaxFailures
\* bounds the failures), the generation ends and the environment is closed.
Terminates == datagen_config.skillgen \/ <>(main = "closed")

\* generation.py: "termination condition is on enough successes if
\* @guarantee_success or enough attempts otherwise".
StopsAfterEnoughAttempts ==
    num_attempts >= NumTrials ~> main = "closed"

\* What the environment sees is the lock-step protocol.
PhaseOf(e) ==
    CASE gen[e] \in Finished -> "ended"
      [] gen[e] = "start" -> "unset"
      [] gen[e] = "resetting" ->
            IF IsEmpty(episodes[e]) THEN "unset" ELSE "ready"
      [] gen[e] \in {"reset", "plan", "act", "acted"} -> "ready"
      [] gen[e] = "acting" -> "acting"

Lockstep == INSTANCE EnvLockstep
    WITH phase <- [e \in Envs |-> PhaseOf(e)],
         steps <- [e \in Envs |-> episodes[e].steps]

ImplementsLockstep == Lockstep!Spec
================================================================================
