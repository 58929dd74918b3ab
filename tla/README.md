# Isaac Lab in TLA+

Isaac Lab is a framework for robot learning: environments that step many copies
of a scene on a physics backend (PhysX inside Kit, OvPhysX, Newton), managers
that turn the stepped state into observations, rewards, terminations and
recorded datasets, and tools around them, among them Mimic, which multiplies a
few human demonstrations into many. Most of the repository is numerical code and
configuration. What these modules are about is its control: who may call whom
and when, what is kept between two calls, what happens when one step of several
fails, and what is promised about the data that comes out.

Paths below are relative to `src/source/` unless they start with `scripts/`.

## 1. Inventory

| component | state it keeps | operations | talks to |
| --- | --- | --- | --- |
| Demonstration generation loop (`isaaclab_mimic/.../datagen/generation.py`, `waypoint.py`, `data_generator.py`, `scripts/imitation_learning/isaaclab_mimic/generate_dataset.py`) | two asyncio queues with their unfinished counters, the action tensor, module-global counters of successes, failures and attempts, one coroutine per environment | `run_data_generator`, `DataGenerator.generate`, `MultiWaypoint.execute`, `env_loop`, cancellation and closing in `main` | `env.step`, `env.reset` (queued), `RecorderManager` |
| Subtask constraints of an attempt (`data_generator.py`, `isaaclab/envs/mimic_env_cfg.py`) | per end effector: subtask index, step index, trajectory, postponed index during a planned motion; a dictionary of runtime rules | plan, constrain, execute, advance and complete a subtask; navigation controller | `MultiWaypoint.execute`, motion planner |
| Simulation life cycle (`isaaclab/sim/simulation_context.py`, `isaaclab/physics/physics_manager.py`, `isaaclab_physx/physics/physx_manager.py`, `isaaclab_ov*/`, `isaaclab_newton/physics/newton_manager.py`, `asset_base.py`, `sensor_base.py`, `manager_base.py`) | singleton context, play flags, Kit's timeline, warm-up flag and views, one table of callbacks with counters per class, a stored exception, the `_is_initialized` and handle fields of each object | create a context, `reset` (full and soft), `step`, `play`, `pause`, `stop`, `clear_instance`, GUI commands, construction and finalisation of objects | Kit's event buses, assets, sensors, managers |
| Articulation data (`isaaclab_physx/assets/articulation/`, `utils/buffers/timestamped_buffer_warp.py`) | some thirty buffers with a timestamp each | getters that refresh on first access, writers of root, joint and centre-of-mass state, `update` | PhysX views; observation, reward, termination and event terms |
| Newton body poses (`isaaclab_newton/physics/newton_manager.py`, `kamino_manager.py`, `assets/`) | two masks of written worlds and articulations, a timestamp per asset, joint coordinates and body poses | writers, getters behind `_ensure_fk_fresh`, `forward`, `step`, `update` | solvers; events and terms of an environment |
| Recorder manager (`isaaclab/managers/recorder_manager.py`, dataset files) | an episode per environment, counts of exported episodes | record before and after steps and resets, export, close | environments, Mimic |
| Manager-based environments (`isaaclab/envs/manager_based_env.py`, `manager_based_rl_env.py`) | episode length, reset and time-out buffers, common step counter, the observation buffer | `step`, `reset`, `reset_to`, `_reset_idx`, `close` | all managers, the context |
| Event, command, curriculum managers | interval timers, first-trigger flags, command timers | `apply`, `compute`, `reset` | environments |
| Observation, reward, termination, action managers | history buffers, episodic sums, last terminations, previous action | `compute`, `reset`, `process_action` | environments |
| Sensor update (`sensors/sensor_base.py`, `kernels.py`, `isaaclab_physx/sensors/contact_sensor/`) | timestamps and outdated flags per environment; forces, history, air and contact times | `update`, `reset`, lazy `data` | scene, contact view of PhysX, terms of an environment |
| Circular and delay buffers (`utils/buffers/`) | ring, pointer, number of pushes, lags | `append`, `reset`, `compute` | observation terms, actuators |
| Source demonstration pool (`datagen_info_pool.py`, selection strategies) | infos and boundaries of the source episodes | load, randomise boundaries, select | Mimic attempts |
| Population based training (`isaaclab_rl/rl_games/pbt/`) | a process per policy with its interval, score and restart flag; a shared directory of weights and records | `after_steps`: save, load, clean up, restart | other processes, by files only |
| Teleoperation session (`isaaclab_teleop/isaaclab_teleop/`, `scripts/tools/record_demos.py`, `scripts/environments/teleoperation/teleop_se3_agent.py`) | queue of pulses with a copy of the state they are to change, the session, pending resets, the flags of the script | `advance`, `reset`, `last_control_events`, callbacks; start, step, loss and replacement of a session | headset (a message channel), XR and Kit, environments |
| Skill planning with cuRobo | planner worlds | | Mimic |
| Assets, actuators, controllers, scene, cloner, terrains, renderers, visualizers, tasks, command line | numerical or configuration | | |

What is hard here, beyond what a unit test would try:

* **Interleavings of coroutines.** Generation lets any number of coroutines meet
  one synchronous loop at two queues. Lockstep, the content of every episode
  and the counters depend on where each coroutine may be suspended.
* **Late and repeated life-cycle events.** Objects are initialised by events,
  deregister in finalisers that run at any time, and hold handles that are
  plain numbers. A user may reset, stop and play in any order and a person may
  operate the GUI's timeline.
* **One step of several failing**: an exception in one of many coroutines, in a
  callback that Kit swallows, in one of several initialisations of a dispatch.
* **Values that outlive what they show.** Buffers are refreshed by timestamp,
  but a reset changes the simulation between two updates: every writer must know
  every buffer that depends on what it writes.
* **Waiting**: coroutines that wait in `join()`, end effectors that wait for
  other end effectors.
* **Order within a step**: managers reset between the reward of the old episode
  and the observation of the new one; recorder hooks before and after both.
* **Rows on clocks of their own**: environments are stepped together but reset
  apart, and timers, histories and outdated flags of one must not notice
  another's reset.
* **Processes that share files.** The policies of a population save, remove and
  load one another's checkpoints without a lock, are killed and restarted, and restart
  themselves from what another has written.
* **Commands that take time.** An operator's "start" is three pulses in three frames,
  aimed with a copy of the state of another machine, while commands go on arriving and the
  session that carries the pulses may be lost and replaced; resets travel both ways through
  the same channel.
* **Work put off**: sensors and forward kinematics are computed when somebody asks,
  and several marks of the same debt are cleared by different readers.

`PROJECT.json` lists each hazard at its line with the properties that would
catch it, or why none does yet.

## 2. The modules

| module | what it is |
| --- | --- |
| `MimicDatagen` | generation with its coroutines, queues, counters, recorder and shutdown |
| `EnvLockstep` | what generation promises to the simulator: an abstract specification |
| `MimicDatagenProofs` | the inductive invariant of `MimicDatagen`, and that it implements `EnvLockstep`, proved |
| `SubtaskConstraints` | one attempt with several end effectors |
| `SubtaskConstraintsProofs` | step indices, sequential and coordination constraints and exceptions of an attempt, proved |
| `SimLifecycle` | contexts, callback registry, timeline and objects |
| `SimLifecycleProofs` | the inductive invariant of `SimLifecycle`, proved |
| `ArticulationData` | the lazily refreshed buffers of a PhysX articulation |
| `ArticulationDataProofs` | of PhysX, two groups of buffers that are never outdated and the combined states; of Newton, that no getter and no physics step misses a write: proved |
| `NewtonKinematics` | body poses on Newton and the three marks of forward kinematics still to run |
| `ContactSensor` | timestamps and lazy refreshing of a sensor, with the PhysX contact sensor |
| `ContactSensorProofs` | its history, timers and freshness, proved |
| `EnvStep` | one step and one reset of an environment through all of its managers |
| `EnvStepProofs` | observations, reports, recordings and times of any number of environments, proved |
| `PopulationTraining` | the processes of a population and their shared directory |
| `PopulationTrainingProofs` | types, the size of the directory and the checkpoints relied upon, proved |
| `TeleopControl` | a teleoperation session: control channel, session life cycle, and the loop of the script |
| `TeleopControlProofs` | its commands and resets, proved |
| `MC*` | the instances TLC checks |

`MimicDatagen` and `SubtaskConstraints` share a boundary. `MimicDatagen` treats
an attempt as a finite, non-empty run of steps whose success signal is
arbitrary, or as one that planning gives up; `SubtaskConstraints` shows
(`AttemptEnds`) that an attempt ends unless its constraints wait for each other, and
(`NoException`) which exceptions it may raise, so that the abstraction of the
first is what the second delivers. `SimLifecycle` stands below both: they
assume a simulation that was reset and is not restarted meanwhile.

`EnvStep` is the step that `MimicDatagen` takes as one action: what it calls an
episode (initial state, then one record for each step) is what `RecordingAligned`
shows to be recorded. `TeleopControl` is the other program around it: it
decides in which frames the environment is stepped and when it is reset. Inside that step the terms of an environment read the buffers
of `ArticulationData`, `NewtonKinematics` and `ContactSensor` and its events write
them, in an order that depends on the terms configured; so these three run by
themselves, with every order of calls. `PopulationTraining` stands above all of them:
to it, a process is a loop of training steps that reports an objective.

Every module carries, next to a definition, its mutants (`...Late`, `...Always`
and so on): the same definition with a plausible mistake in it. No action uses
one; they are there to show that each property can tell the code from a
wrong version of it.

### MimicDatagen

A coroutine moves only while `env_loop` runs the event loop and keeps control up
to its next suspension point, so an action is the code between two suspension
points. `gen[e]` is the point where the task of environment `e` is
(`resetting` and `acting` wait in a `join()`; `start`, `reset`, `plan`, `act`,
`acted` are ready to be resumed), `main` is where `env_loop` and its caller
are. `asyncio.Queue` is external code, modelled by what it does: `put` appends
and counts an unfinished item, `task_done` counts down and wakes the joiners
at zero. One run of the event loop resumes every task that was ready
when it began (`due`).

| action | code |
| --- | --- |
| `StartTask`, `BeginAttempt` | `run_data_generator` up to `env_reset_queue.join()` in `generate()` |
| `ResumeAfterReset`, `PlanWaypoints`, `PlanningFails` | `generate()` between the reset and `MultiWaypoint.execute` |
| `PutAction`, `ContinueAttempt`, `FinishAttempt` | `execute()`; the end of `generate()`, export and the counters |
| `TaskRaises`, `GatherNotices` | any exception in a coroutine, wherever it is resumed; `asyncio.gather` hears of it, after the tasks that were scheduled before |
| `RunTasks`, `TasksRan` | `asyncio_event_loop.run_until_complete(asyncio.sleep(0))` |
| `ResetEnv`, `ResetsDone`, `GetActions`, `StepEnv` | draining both queues, `env.step`, the test of the target |
| `EnvRaises` | an exception or interrupt in `env_loop` itself |
| `LeaveLoop`, `TaskCancelled`, `CloseEnv` | leaving the loop, `data_gen_tasks.cancel()`, `env.close()` in `main` |

An episode is two counts, of initial states and of recorded steps: what is
checked is whose data it holds and from where.

### SubtaskConstraints

One iteration of the loop of `generate()` is three passes over the end
effectors: `plan` in the order of `subtask_configs`, `constrain` in the order of
their names (`sorted`), `advance` in the order of `subtask_configs` again. The two
orders are both in the model because two findings depend on them. A
trajectory is its length; a rule is the dictionary that
`generate_runtime_subtask_constraints` builds, and of several constraints that name a subtask
the last makes its rule, which is what `dict.update` in a loop comes to (`InitialRules`). The modes are the plain one,
`use_skillgen` (a planned transition precedes each subtask, during which the
index is -1) and `use_navigation_controller` (steps repeated or skipped until
the base has arrived).

To hold an end effector back is to repeat a waypoint, and the waypoint repeated is executed. A
subtask with a single waypoint is therefore over before it can be held back, and the properties
speak of subtasks that have another (`MayWait`). `LatterHeldBack` and `CoordinatedTogether` are
stated where an iteration begins, when all end effectors have had as many turns.

Nothing in the code keeps a set of constraints from making subtasks wait for each other, as when
the first subtask of each arm is the latter one of the other arm's second. Such an attempt repeats
waypoints for ever, in the program as in the model. `AwaitedBy` says what has to be over before a subtask
can end: the subtask before it, the former of a latter subtask, and, for a coordinated one, what comes before its
partner. `NoMutualWaiting` says that this relation is well-founded, and is a
hypothesis of `AttemptEnds` and of nothing else.

### SimLifecycle

`callbacks` is `PhysicsManager._callbacks`, one table for all manager classes;
`callback_id` has a counter per class, because `cls._callback_id += 1` gives a
subclass one of its own. A dispatch of `PHYSICS_READY` is one action: it
initialises assets and sensors and then the managers, in the order of their
order numbers, less the ones in `F`, which raise. `view` says that there is a
native simulation and `bound` which objects refer to the present one.

Abstractions: an initialisation that fails leaves its object as it was and fails
at every dispatch of one `reset`; closing the stage stops Kit's timeline (Kit is
external); opening another stage inside a context, cameras, markers and
visualizers are left out; so is a Newton asset that raises after it has
registered its rebinding callback. Sensors on Newton do not rebind: the
properties exempt them, as the hazards note.

### ArticulationData

`Inputs` is a table of the getters: for each buffer what it is made from, other
getters or quantities that PhysX holds (root pose, root velocity, joint positions,
joint velocities, centres of mass). A writer is a record: the getters it
calls, the buffers it overwrites, the quantities it changes, the buffers it hands to
PhysX and those whose timestamp it sets to -1. `Get`, `Write` and `Update` are the
three things that can happen, in any order; `fresh` is the set of buffers whose
timestamp is the current one.

Values are abstracted to `lag[b]`, the quantities of which the value of `b` shows an
older state than the simulation has, in some environment. A refresh takes over the lag
of the getters it calls; a writer adds what it changes to the lag of every buffer that
shows it and is neither overwritten nor invalidated. That PhysX's body poses follow root
pose and joint positions, and its body velocities these and the velocities, is
kinematics and taken for granted. Accelerations of bodies, limits, gains,
tendons and actuator targets are left out, as are properties computed at each access.

### NewtonKinematics

A pair `<<a, w>>` is the articulation of asset `a` in world `w`. `stale` holds the pairs
whose body poses lag behind the joint coordinates, `written` those written since the last
step, `lost` those whose write the last step ran past: history variables, which no guard
looks at. The program's own account of the same debt is `worldMask`, `fkMask` and
`fkTimestamp`. Writers are `WritePose`, `WriteJointPosition`, `WriteJointState` and
`WriteVelocity` and differ in what they mark; the index and the mask variant of a writer do
the same (`UpdateData` is the `update` of the assets that every step ends with). Its `Init`, `Next`,
`Spec` and `TypeOK` are called `KinematicsInit` and so on, so that one module can prove about both
kinds of articulation. `Read` is a getter that has to run forward kinematics (`_ensure_fk_fresh`),
`Forward` is `NewtonManager.forward`, which runs it for everything and clears no mark. `Step`
is `step` of `NewtonManager` and of `NewtonKaminoManager`: what each solver makes of body poses
is external, modelled by what the comments at `newton_manager.py:565` and
`kamino_manager.py:58` rely on.

### ContactSensor

A row is one environment of the sensor's arrays; the kernels are operators on a row, the
calls are actions on all rows. A measurement is the episode and step of its physics step and
whether there was contact. `PhysicsStep` is `sim.step()` with the `scene.update` that
follows, which refreshes at once unless the scene is lazy; `ReadData` is the `data` property;
`Reset` is `scene.reset` for some environments. `seen` collects the measurements of the present
episode that the sensor was asked for, the abstract account against which its
arrays are compared: `HistoryOfEpisode` and `TimesOfEpisode` say what forces, history and
timers must be, given that set alone. Times are counted in physics steps, so the tolerance of
the comparison of times is exact; rounding in `float32` is left out. That a read is
refused before initialisation belongs to `SimLifecycle`.

### EnvStep

`Step` is `ManagerBasedRLEnv.step` and `Reset` is `reset(env_ids)`. Every operator on a row is
one call of a manager, named after it, and `Stepped`, `ResetIdx` and `StepRows` compose them
in the order of the code, so that a swapped or forgotten call is a different formula. The
scene's state is known by its episode and step, and so is whatever is computed from it: frames of
the observation history, rewards, sums, records. Terminations are free. Timers count
environment steps. History variables keep what a reset reported, what was exported
and when events were applied. `reset_to` differs from `reset` only in the state it writes.

### PopulationTraining

A tick of policy `p` is `PbtAlgoObserver.after_steps` at the start of a new interval, cut
where other processes can see or change the directory in between:

| action | code |
| --- | --- |
| `SaveWeights`, `OpenRecord`, `WriteRecord` | `save_pbt_checkpoint`: weights written in place, then the record, truncated first |
| `LoadNext`, `RecordVanishes` | `load_pbt_ckpts`, one policy's directory at a time |
| `Unlink` | `cleanup`, file by file |
| `Continue`, `SetRestartFlag` | the cuts, and the choice of a leader's checkpoint |
| `Restart` | the next training step: `_restart_with_new_params` and the new process, which loads the weights or dies |
| `OperationFails` | the exception handler of the tick |
| `Crash`, `Launch` | a killed process, and somebody who starts it again |

`weights` and `record` are the files of each policy, `seen` is `ckpts`. `doomed` holds the iterations
`cleanup` found too old and `unlinking` the one it is removing: both of its files are unlinked before the
next iteration, in any order of iterations, since `os.listdir` promises none. Means and deviations are
compared without fractions. Intervals pass one by one, that is, a training step is shorter
than `interval_steps`. Between the completion of the weights and the opening of the record nothing is
shared, so `OpenRecord` is both. `missed` is a history variable: the weights whose saving
failed and that were not saved since.

A checkpoint that somebody relies upon may be lost in four ways, and `ReliedUponKept` names each of them:
its owner, sent back or launched anew, saves that interval again (`Resaved`); its saving failed (`missed`); its owner
has `max_yaml` records after it (`Outrun`); or every policy, the reader included, has a record
`keep_back` intervals after it (`Old`). The last two are the rules of `cleanup`. Where the reader is and what
happened to it plays no part.

### TeleopControl

The script runs frame by frame; `pc` says where it is, and Kit's event loop may call back
only where the script is inside the simulation (`Pumping`).

| part | actions | code |
| --- | --- | --- |
| control channel | `Message`, `Compute` (`Drain`, `Toggle`) | `TeleopMessageProcessor._compute_fn`, one message of a batch at a time, then the level of the frame |
| retargeters | `Retarget`, `WorkerCompletes` | the pipelines that the control pipeline precedes, in the step (`mode="sync"`) or in the worker that `_resolved_retargeting_execution` asks for by default |
| session | `Start`, `TryStartSession`, `Deferred`, `BeginStep`, `StepFails`, `StepFailsLate`, `SessionRaises`, `Stop`, `OnXrEnabledChanged`, `OnPreShutdown` | `TeleopSessionLifecycle` |
| device and script | `Advanced`, `Render`, `Act`, `Reset`, `Leave` | `IsaacTeleopDevice.advance` and the loops of the two scripts |
| outside | `XrStarts`, `XrStops` | the operator starts and stops AR |

`cfg` picks the script, whether there is a control channel, `teleoperation_active_default`, and
whether retargeting is pipelined. A session that XR has left is `"dead"`: nobody knows until
a callback runs or a step raises, which it may do before the pipelines have run, between the two,
or after. What `step` does outside its `try`, before and after the call of the session, leaves the
loop when it raises (`Leave`). `_compute_fn` is the one place where a message is read, so `Message` may
be taken any number of times before `Compute`. From the library `isaacteleop`, which is not in the
repository, the model takes what the code and its comments rely on:
`DefaultTeleopStateManager` starts STOPPED and toggles on rising levels; pipelines,
and with them processor and manager, are built once in `start()` and outlive a session;
an event of the last step is what `last_context` shows; of processor and manager, between
which there is only boolean logic, either both have run or neither; and a worker gets to every frame it is handed, sooner
or later, unless its session goes. Some variables are there for the properties:
`accepted` (the last "start" or "stop" that was not dropped),
`owed` and `delivered` (where the reset is that the script has asked for: `"due"` before the retargeters are
handed it, with the `"worker"`, or `"lost"` with the step or the session that had taken it; and whether they were
handed one in this frame), `cause` and `resets` (what the last resets of the environment go
back to, and how many they are), and `callbackActive`, the flag of a script that follows callbacks alone.
A frame in which the demonstration succeeds is any frame in which it is looked for.

## 3. What the runs check

| run | instance | question |
| --- | --- | --- |
| `mimic_attempts` | 2 environments, target 2, attempts of up to 2 steps, up to 3 counted failures, exceptions, interrupts and a stopped simulation anywhere, 3 configurations | `EveryRowFilled`, `QueuesMatchTasks`: is every step given one action of every environment? `EpisodeIsAttempt`: is an episode the attempt, whole and alone? `BooksBalance`, `TargetDelivered`: do counters, files and target agree, and is the target overshot by less than one attempt per environment? `NothingAfterFailure`: once a generator has raised, is nothing stepped, reset, exported or counted as a success? `Terminates`: does it end? `ImplementsLockstep`: does all this implement `EnvLockstep`? |
| `subtask_constraints` | 2 end effectors of 2 subtasks, both orders, 9 sets of constraints, two of which wait for each other, segments of 1 or 3 steps without interpolation, all modes | `LatterHeldBack`, `CoordinatedTogether`: is each constraint kept? `NoException`: is the index that is executed always inside its trajectory, and does nothing raise? `AttemptEnds`: does every attempt end whose constraints do not wait for each other? |
| `sim_lifecycle` | an asset, a sensor and a manager over successive contexts on each of 3 backends, the asset may fail, one GUI command | `HandlesAreOwn`, `ReadyIsCurrent`, `InvalidAfterClose`: whose handles, which simulation does an object refer to? `ResetLeavesAllReady`, `FailuresReported`: is all ready when a call returns, or does the user hear of the failure that caused it? |
| `articulation_data` | the 28 buffers, 8 writers, any 5 calls between two updates | `HeldCurrent`: are root pose and joint state, and what the next joint acceleration is made from, what PhysX holds? `ConfigurationCurrent`: do poses and dynamics follow root pose and joints? `StatesAreTheirParts`: do combined states agree with the properties they combine? |
| `newton_kinematics` | an articulation, a rigid object and a collection in 2 worlds, each of 4 solvers, up to 2 updates of each asset | `ReadsCurrent`: does a getter ever return poses of before a write? `WritesReachSolver`: does a physics step ever run past one? |
| `contact_sensor` | 2 environments, periods of 0, 2 and 3 steps, lazy and eager, episodes of up to 5 steps, 3 episodes, history of 2 | `HistoryOfEpisode`: are forces and history the newest measurements of this episode, each once? `TimesOfEpisode`: are air and contact times those of these measurements? `FreshWhenNotOutdated`: is what is not outdated less than a period old, and of one measurement? |
| `env_step` | 2 environments, 4 steps in which any may end, 2 calls of reset, history of 2, intervals of 2 and 3 steps | `ObservationsOfNewEpisode`: is what the policy sees of this episode and without a gap? `EndedEpisodeReported`, `RecordingAligned`: are reports and recordings those of the episode they are given for, complete and aligned? `EventsOnTime`: do interval events, commands and reset events keep their times? |
| `population_training` | 2 policies, 3 intervals, objectives of 2 values, one crash or failed operation of one of them, `keep_back` 1, `max_yaml` 2 | `ReliedUponKept`: is a checkpoint that a process has loaded or will restart from still there, whole and the same, whatever its owner saves and cleans up? `DirectoryBounded`: is what a clean-up leaves bounded, whatever went wrong before? `PopulationAdvances`: does training complete, however often policies are sent back? |
| `teleop_control` | both scripts with a channel, with retargeters in a worker and in the step, one active by default, and one without a channel, 2 demonstrations, 4 messages, 3 faults (AR stopped, a step or a start that raises) | `AcceptedCommandHolds`: is the state where the last accepted command wants it once its pulses are sent? `ScriptFollowsManager`: do polled flag, callbacks and state manager agree where the environment may be stepped? `InjectedResetDelivered`: is no action applied before a reset asked for has been handed to the retargeters? `NoResetLoop`: do resets that come back as events end? `ResetsAnswered`: is a reset command answered in its frame and only once? `SessionReturns`: is a lost session replaced? |

Three more runs end in a counterexample. Each is a statement of the repository
about itself that the code does not keep (`findings` in `PROJECT.json`):

| run | statement | what happens |
| --- | --- | --- |
| `mimic_planning_livelock` | generation stops on enough attempts | the target is tested only after `env.step`; a planner that keeps failing in one environment keeps all others from being stepped |
| `root_velocity` | the writer of the root's link velocity sets it into the simulation | it hands the link velocity to the call that takes, and whose counterpart returns, the velocity of the centre of mass |
| `stale_success` | only episodes that succeeded are exported as successes | `record_pre_reset` asks the success term of the last step, which may be about the episode before |

Other disagreements between code and documentation are built into the models; those
that would break a property are exempted in it by name:

* `generate_dataset.py:192`: after one task has raised, `cancel()` does nothing, because the gathered future
  is done by then, and the environment is closed with the other tasks pending. The event loop does not run again, so
  nothing comes of it; until then the pass in which the task has raised goes on, and
  `NothingAfterFailure` says what the other tasks may still do in it.
* `data_generator.py:828`: an arm is held back until another is through with its subtask, and nobody checks
  that the other is not waiting as well: the attempt then never ends (`NoMutualWaiting`).
* `data_generator.py:961`: with `subtask_configs` in another order than by name the
  assertion about the partner of a coordinated subtask fails (`NoException` exempts it).
* `data_generator.py:857`: a coordinated subtask of one waypoint (`num_interpolation_steps` is 0
  in several configurations) that is reached before its partner's is not held back: it ends, and the
  assertion of line 961 fails; a latter one (line 828) overtakes its former (`MayWait` exempts both).
* `mimic_env_cfg.py:243`: the check for one constraint per subtask looks at an empty
  dictionary; a later constraint overwrites an earlier one
  (`OneConstraintPerSubtask` is a hypothesis of the properties).
* `physics_manager.py:117`: the classes count handles separately in one table; after a
  switch of backend a late finaliser removes another object's callback (the run and the
  proof keep to one backend).
* `simulation_context.py:873`: a stop from the GUI does not reach the flags of the context.
* `articulation.py:1009` (Newton): `write_joint_state_to_sim_*` names no worlds to
  `invalidate_fk`, so all are marked, and Kamino restarts its solver state in worlds that nobody
  wrote; `isaaclab_newton/docs/CHANGELOG.rst:529` says that only dirtied environments are.
* `pbt_utils.py:208` says "Delete files older than (oldest iteration - keep_back)"; the code
  deletes the files of that iteration too (`Removed`).
* `population_based_training.rst` promises that an underperformer is restarted with the new
  weights. A policy that was sent back rewrites its checkpoints in place, and the records of
  intervals it has yet to reach again count as its newest: its clean-up may remove what it has just
  saved, or what another is about to load, and the new process dies or gets other weights
  (`ReliedUponKept` exempts `Resaved` and `Outrun`). A save that fails while rewriting leaves
  new weights beside an old record (`missed`). And a policy that has chosen a checkpoint finds it gone
  if, before it has restarted, all policies get `keep_back` intervals ahead of that checkpoint (`Old`): `cleanup` does not know
  who is about to restart from what.
* `contact_sensor.py:441`: the kernel that unpacks contact points and friction forces does not
  look at the timestamp as the others do, so that a read between a reset and the next step shows
  contact points of the last episode (`FreshWhenNotOutdated` begins with the first step).
* `teleop_message_processor.py:176`: a "stop" that is read while pulses of a "start" are left to send,
  or behind it in one batch, is dropped and forgotten; the pulses go on to RUNNING. `isaac_teleop.rst:193`
  says of `is_active` "`False` after "stop"" (`test_control_events.py:327` expects the command to be
  ignored; `AcceptedCommandHolds` speaks of accepted ones).
* `session_lifecycle.py:83`: the state manager starts STOPPED, which is reported as False, not as "`None` when no
  command has been received yet" (`isaac_teleop.rst:193`): a script with
  `teleoperation_active_default` is turned off in its first frame.
* `session_lifecycle.py:289`: a reset by the script comes back as `should_reset`, which is to be
  "`True` for exactly one frame after a "reset" command" (`isaac_teleop.rst:195`): the environment
  is reset a second time (`NoResetLoop` allows for it).
* `session_lifecycle.py:701`: without a control channel a requested reset is cleared before the step that
  carries it; if that step raises, the retargeters keep the state that `isaac_teleop_device.py:203` says
  they reinitialize (`InjectedResetDelivered` is about channels).
* `teleop_message_processor.py:154`: with a channel the request is cleared when the processor takes it, in the
  same call of `session.step` that runs the retargeters after it: if they raise, or the session goes before its worker gets
  to that frame, the reset is lost just so (`owed = "lost"`).
* `session_lifecycle.py:518`: retargeting is pipelined by default, and "the application uses the most recent
  completed result" (`isaac_teleop.rst:1122`): the first actions after a reset may still be of retargeters that
  are not reset yet. `InjectedResetDelivered` promises more with `mode="sync"` only.
* `session_lifecycle.py:587`: a session that raises on being entered in `start()` leaves the
  `with` statement of the script without `stop()`: the launcher and the assigned session stay
  (`SessionRaises`; the program ends there).
* `record_demos.py:512`: the script starts inactive and waits for the channel; with
  `control_channel_uuid=None` nothing ever makes it active.
* `articulation.py:490` (PhysX): no writer invalidates the vectors in the base frame: one
  that a termination term has read shows the orientation of before the reset
  (`ConfigurationCurrent` leaves them out).

**Bounds.** Two environments are the least for which one can wait for the
other, and a target of two lets both finish in one step and overshoot it; three
failures exceed the target, so that "keep failed" and "guarantee" differ. At
`MaxFailures` the counters stop and the run goes on, so no behaviour is cut
off. Two end effectors with two subtasks give a first subtask (which executes
one pose more), a last one, and every pairing of former, latter and
coordination across them; segments of 1 and 3 make either partner the longer
one and put the rendezvous on the border of the shorter list. With no waypoint
of interpolation (`Leads` is {0}) there are subtasks of a single waypoint, two of one waypoint
that are coordinated, and the rendezvous at step 0; the proofs are for any number of such waypoints. A wait that is
repeated at the end of the trajectory extends it: `MaxLength` lies above what
any run that ends needs. Of the sets of constraints two make subtasks wait for each other, one by order and one
by coordination: without `NoMutualWaiting` either refutes `AttemptEnds`. `MaxIds = 8` allows about three generations of objects,
enough for a first context, its successor and a late finaliser; a GUI command is
enough for each pair of a program's call and a person's. `MaxCalls = 5`: the longest
chain of getters is three, so that five calls reach a buffer read, a part of it written, the
part read again and both compared; a bound of 6 gives the same answers in four
minutes, and the proofs need none. `NewtonKinematics` has one asset of each kind because the kinds
differ in what they mark, and two worlds so that one is written and another not;
`MaxTime = 2` gives an asset that is a step ahead of another. In `ContactSensor` five steps hold
a period of three and a run of contact on either side of a change, and three episodes one
that follows an episode never read; the proofs need no bound. In `EnvStep` two
calls of reset and four steps give an environment its first reset, resets by either
way, a history longer than an episode, and an interval that a reset of the other
environment falls into; the proofs need no bound. In `PopulationTraining` three intervals are the
least for which both rules of the clean-up remove something, `keep_back` and `max_yaml` stand for 20
and 50, and the one fault may come anywhere, before or after the policy was sent back. A `keep_back` of 1 lets
a checkpoint go that both policies have passed, and no other. With three intervals and `max_yaml` 2 a fault cannot
push a directory beyond the bound of `DirectoryBounded`: TLC tests the cap of a run without faults, and what faults
may add is established by the theorem. In `TeleopControl` four messages give
a start that is accepted, a stop dropped behind it, a stop accepted and a start from PAUSED, and a reset between any of them;
three faults lose a session, its successor, and fail a step in between; the second demonstration
is one after a success that did not end the program. Two policies always have a leader when they have an underperformer, so a
policy that restarts from its own checkpoint (`Candidates`) needs three and is not reached.

**Deadlock** is checked except in the runs of `SimLifecycle`: there the process may
simply end with nothing more to create within `MaxIds`, and in that of
`PopulationTraining`, where training is over after `MaxIt` intervals, and those of `TeleopControl`, whose
script ends.

**Fairness.** `MimicDatagen` and `SubtaskConstraints` assume `WF_vars(Next)`: the one
thread of the program keeps running while it has something to run. That a
particular coroutine gets its turn is not assumed but follows from the model of
the event loop, which resumes every ready task in each pass (`due`). `PopulationTraining` assumes weak fairness of the
ticks of each policy: each is a process of the operating system and keeps training. `TeleopControl`
assumes `WF_vars(Proceed)`: the loop of the script goes on while it may. Commands, faults, XR, callbacks of Kit and leaving
the loop are free; `SessionReturns` asks for a session only if AR stays on and the loop goes on. Nothing is
assumed of planners, of success terms or of the person at the GUI.

## 4. What is proved

The theorems hold for every value of the constants that satisfies the modules'
named assumptions (a finite, non-empty set of environments, a positive target,
and the like), that is for any number of environments, trials, steps, objects and
contexts; the bounds of the model are constants among them.

* `MimicDatagenProofs`: `Spec => []IInv`, and from it `TypeOK`, `QueuesMatchTasks`,
  `EveryRowFilled`, `EpisodeIsAttempt`, `BooksBalance`. `QueuesMatchTasks` is not
  inductive alone: between two passes of the loop the content of a queue is fixed by
  where the loop stands. `LoopInv` says what that is (an action set that is being
  gathered holds exactly the tasks that are acting), and `ResetInv` that an
  environment whose reset is pending has an empty episode, which is what makes a step
  that falls in between harmless to `EpisodeIsAttempt`. `TargetDelivered`
  needs more (`TargetInv`): which environments have acted since the last step, what they handed over,
  and that the loop looks at the counters before it gathers the next actions, so that nothing of an
  attempt begun after the target was met is ever exported or left in a queue. `NothingAfterFailure`, an
  action property, needs to know who may still be between a step and the count of its attempt when a
  failure is heard of (`FailureInv`): nobody, because all tasks that a step releases are
  resumed in the next pass of the event loop, which is first in, first out, before the gathered future hears
  that one of them has raised; and the loop looks for failed tasks before it drains a queue again.
* `MimicDatagenProofs`, last section: `Spec => ImplementsLockstep`, the refinement of
  `EnvLockstep`: a step of all environments is taken only when each has handed over
  one action since the last one. The mapping reads "handed over" off the places of
  the coroutines; the invariant is what makes every step of the queues a stutter or a
  step of the abstract specification.
* `SimLifecycleProofs`: under `~Switch` (a process keeps to one backend)
  `TypeOK`, `HandlesAreOwn`, `ReadyIsCurrent`, `InvalidAfterClose`, `ResetLeavesAllReady` and
  `FailuresReported`. The invariant
  adds that every number handed out lies below the counter of the backend
  in use (`Issued`), that an owner of a callback is in the context or still holds
  its handles (`OwnersHere`, `Traced`), that nothing is initialised without a
  native simulation (`NothingWithout`, `Warmed`), and that whatever is
  initialised is registered for the event that will make it refer to the next one
  (`Listening`, `WillRebind`). For the last two properties it
  adds what holds between a dispatch and the return of the call: an object of the context that is not
  initialised yet still awaits the READY event (`Awaiting`), because the callbacks run in the order
  of their numbers and a smallest one that is left always exists (`LeastNumber`), and an
  exception that a callback swallowed is still to be raised (`Reporting`). Without the hypothesis
  `HandlesAreOwn` is false: a process that goes from one backend to another is a counterexample.
* `ArticulationDataProofs`, last section, of `NewtonKinematics`: `KinematicsTypeOK`, `ReadsCurrent` and `WritesReachSolver`, for any
  scene, number of worlds and solver. Neither of the two safety
  properties is inductive by itself: `Covered` adds that every stale pair is marked in
  `fkMask` and that the world of every stale or written pair is marked in `worldMask`,
  which reads and `forward()` leave alone.
* `ContactSensorProofs`: `TypeOK`, `HistoryOfEpisode`, `TimesOfEpisode` and `FreshWhenNotOutdated`, for any
  number of environments, any period and length of history. The invariant relates a row's
  clock, the view of PhysX and `seen`: an outdated row's last measurement is older than the
  view's, so that it is taken once. The lemmas are about one row and one measurement added to a
  set that is older than it; the proof lifts them to all environments.
* `SubtaskConstraintsProofs`: `TypeOK`, `LatterHeldBack`, `CoordinatedTogether` and `NoException`,
  for any number of end effectors and subtasks, any constraints and trajectories of any
  length. Where an end effector is in an iteration follows from pass and turn alone (`Planned`,
  `Constrained`, `Between`), and lemmas say of every action what it does to that and to one end effector
  (`StartView`, `WithinView` and so on); the rest of the proof reads those. `Waypoints`
  bounds the step index at each of these places: the navigation controller may take one step back from
  everybody, which those whose turn is still to come make up for in the same pass. A latter
  subtask never gets past the step where it waits (`Limit`), and is one step before it from the
  constraint of an iteration to the count of its step (`LatterInv`).
  Of two coordinated subtasks the properties hold only together with seven more facts (`Duo`): that
  nobody is released before the partner is there (`Status`) or gets past the rendezvous before both
  are (`Held`), that whoever has released the partner waits for it (`Awaits`), what is due to
  whom at the rendezvous of a subtask as short as the shared part (`Prompt`, `Fresh`), and which
  of the two is a step ahead once both run: the one that is constrained first (`SideBySide`). Without the
  last `LastStep`, and with it the assertion of `data_generator.py:961`, cannot be shown. `NoException`
  needs the names in the order of configuration there and nowhere else. The assumptions are that both orders
  name every end effector once, that a constraint names two end effectors, and that a bound on repeated last waypoints
  exceeds one.
* `EnvStepProofs`: `TypeOK` and all that its run checks, `ObservationsOfNewEpisode`, `EndedEpisodeReported`,
  `RecordingAligned` and `EventsOnTime`, for any number of environments, length of the history,
  ranges of intervals, steps and resets. A row is a record of 23 fields that a dozen managers write in
  turn; lemmas say of each call which fields it changes, and the composed ones what
  a step or a reset changes as a whole (`SteppedFields`, `ResetFields`). The invariant has
  a form for the end of a call (`AtRest`) and one for the places inside (`Running`, `Accounts`),
  where the observation is still that of the state before. What the properties do not say and the
  induction needs: that the sums hold exactly the steps so far, that what a termination
  term said last is how the episode ended, and, for the times, that what is left of an
  interval and what has passed of it add up to a member of its range (`Timer`), or to one less
  for the first interval after a reset in the middle of a step.
* `TeleopControlProofs`: `TypeOK` and all safety properties of its run, for any numbers of commands, faults and demonstrations and every
  configuration. `AcceptedCommandHolds` rests on `Mirror` (the processor's copy of state and level
  is the manager's, frame for frame, because both are updated in `Compute` only and outlive
  the session) and on `Aimed`: what is left to send is one of four sequences, each with the state and the command
  that it belongs to. `FrameInv` says what of a session and its events is there at which
  point of a frame, `OwedInv` and `CommandInv` where a reset is on its way in either
  direction. `NoResetLoop` needs most: of the resets that one cause may have, the last comes over
  the channel (`LastReset`), where `request_reset` sees it and injects no other, so that
  none is under way afterwards (`NoneLeft`, `Quiet`).
* `PopulationTrainingProofs`: `TypeOK`, `DirectoryBounded` and `ReliedUponKept`, for any population,
  any `KeepBack`, any numbers of saved iterations, intervals and faults; the last for a positive `KeepBack`
  (the only caller of `cleanup` leaves it at 20; with zero a policy may unlink its newest record, and TLC refutes the property). For the first bound
  (`Budget`) every iteration whose files lie in a directory is one of the newest that `cleanup` keeps,
  one of `doomed`, or an orphan that some fault excuses. The attempt to prove it found
  the model wrong: an earlier `Unlink` took any file of any old iteration, so that one crash
  left several half-removed iterations behind, which `pbt_utils.py:223-233` cannot do; `unlinking`
  came of that. For `ReliedUponKept`, an action property, the invariant says that
  whatever `cleanup` removes is left behind by all or followed by `MaxYaml` records, and that the newest
  record is never removed (`DoomedOld`); that a record with no whole weights is to be saved again, is
  out of date or is of a failed save (`RecordsWhole`); and that what a process has loaded is not
  ahead of it (`Below`) and is still recorded or out of date (`ReliedRecorded`, `Followed`).
  An iteration is out of date once every policy has a record `KeepBack` iterations later (`Old`), which stays
  so because newest records are never removed, or once `MaxYaml` records follow it (`Outrun`).
  The lemmas about the model's operators (`LeastIteration`, `FewNewer`, `TopKept`, `ThresholdType`,
  `RemovedEnough`, `RemovedOld`) say what the threshold of `cleanup` leaves of a finite set of
  iterations; they go by a least element, not by induction. `MarksAssumption` says that the mark
  for "nothing there" is none of the data.
* `ArticulationDataProofs`: `TypeOK`, `HeldCurrent`, `ConfigurationCurrent` and
  `StatesAreTheirParts` for any number of calls. For the second and the third
  the argument is one lemma about groups of buffers (`NextClean`): if the getters of
  a group call getters of the group only (`Closed`), and each writer
  overwrites or invalidates every buffer of the group that shows what it changes
  (`Covers`), the group never lags behind those quantities. Those two theorems check the
  tables of the code against that condition; poses are not closed without
  the centres of mass in the body frames (`ConfiguredGroup`). The last one is
  inductive by itself: a getter refreshes a state from its parts after they are
  refreshed (`LagAfterAgrees`), and each writer either invalidates a state or touches
  neither it nor its parts (`Uniform`), so both show the same change.

Type invariants are conjuncts of the inductive invariants; where they are proved, the runs
leave them out. Each inductive invariant was model-checked before it was proved. The proofs have
one lemma or step per action. No module with a theorem reaches a `RECURSIVE`
operator.

**Only model-checked**: liveness (`Terminates`, `AttemptEnds`,
`PopulationAdvances`, `SessionReturns`) and everything
stated with fairness, which is out of the prover's reach, as are induction over data
and `ENABLED`. Every safety property of every passing run is the property of a theorem.

## 5. Plan

1. (done) `MimicDatagen` with `EnvLockstep` and the proofs of both;
   `SubtaskConstraints`; `SimLifecycle` and its proof; `ArticulationData` for PhysX
   and its proof.
2. (done) `EnvStep`: what of the old and of the new episode ends up where.
   `ContactSensor` and `NewtonKinematics`; the proofs of all three. `PopulationTraining`.
   `TeleopControl` and its proof.
3. Proofs: (done) the remaining safety properties of `MimicDatagen`, `SimLifecycle` and
   `PopulationTraining`, and those of `SubtaskConstraints`.
4. Proofs that are left: what of liveness is a safety property, that no state of an attempt or of the
   generation loop short of its end is without a successor, with the guards written out in place of `ENABLED`.
5. Tables of OvPhysX, rigid objects and collections beside those of `ArticulationData`;
   delay buffers with their lags; the source pool.

## 6. What is not modelled

Numerical code (kinematics, controllers, actuators, reward and observation
terms, noise, terrains, cloning) has no control to check. Rendering, visualizers
and markers are left out but for their place in the life cycle. Kit, Newton,
cuRobo, `asyncio` and HDF5 are external: modelled, where they matter, by what
the code relies on. Configuration classes, task definitions, RL library wrappers,
command-line and docker tooling are not modelled. The components of step 5 of
the plan are listed in `PROJECT.json` as `not_modelled` or `partly`. Within what is
modelled: the filtered force matrix of the contact sensor, the other sensors, body
velocities on Newton and what its solvers compute, modifiers and noise of observations
(with an active recorder the observations of a step are computed twice, and a modifier
that keeps state advances twice), rounding of times in `float32`, and, of population based training,
the mutation of parameters and the command line of the new process; of teleoperation, anchors, poses and
retargeting, the tuning window, the CloudXR launcher, recording and replay of MCAP files,
controller buttons, and entering a device a second time.
