------------------------------- MODULE EnvStep -------------------------------
(***************************************************************************)
(* One environment step and one reset of a ManagerBasedRLEnv: the order in *)
(* which step() and reset() of isaaclab/envs call the managers of          *)
(* isaaclab/managers, and what each manager keeps per environment.         *)
(*                                                                         *)
(* The environments are stepped together but end their episodes at their   *)
(* own times: a step resets some of them in its middle, after the rewards  *)
(* and before the commands, the interval events and the observations,      *)
(* which are computed for all.  Every row passes through the managers in   *)
(* the order of the code; one operator is one call of a manager on a row.  *)
(*                                                                         *)
(* The state of the scene is known by the episode and the step it belongs  *)
(* to, and so is what is computed from it.  Durations are counted in       *)
(* environment steps: an interval of x seconds has passed after the        *)
(* smallest number of steps that take as long.  Termination terms are free *)
(* to end any episode, with success or without.                            *)
(***************************************************************************)
EXTENDS Integers, Sequences

CONSTANTS Envs,            \* the environments
          HistoryLength,   \* history_length of the observation terms
          CommandRange,    \* resampling_time_range of the command term
          IntervalRange,   \* interval_range_s of an event of every environment
          GlobalRange,     \* interval_range_s of an event in global time
          MinStepCount,    \* min_step_count_between_reset of a reset event
          MaxSteps,        \* bound: steps
          MaxResets        \* bound: calls of reset

ASSUME HistoryAssumption == HistoryLength \in Nat \ {0}
ASSUME RangeAssumption   ==
  \A R \in {CommandRange, IntervalRange, GlobalRange} : R # {} /\ R \subseteq Nat \ {0}
ASSUME CountAssumption   == {MinStepCount, MaxSteps, MaxResets} \subseteq Nat

VARIABLES
  steps,      \* common_step_counter, and _sim_step_counter // decimation
  resets,     \* calls of reset so far
  globalLeft, \* _interval_term_time_left of the event in global time
  globalAt,   \* history variable: the step it was last applied in, 0 for never
  row         \* what the managers keep, for each environment

vars == <<steps, resets, globalLeft, globalAt, row>>

Frames == 1 .. HistoryLength
Stamp  == [ep : Nat, t : Nat]
Zero   == [ep |-> 0, t |-> 0]
ZeroFrame == [state |-> Zero, command |-> 0, action |-> Zero, length |-> 0]

\* EpisodeData()
NoEpisode == [initial |-> <<>>, obs |-> <<>>, actions |-> <<>>, states |-> <<>>]

\* A row before the first reset.  The fields of the last four lines are history
\* variables: what a reset reported of the episode it ended, the episode that
\* was exported last and how many were, whether the present episode is a
\* success, how the last one ended, and the times of commands, interval events
\* and reset events.
NewRow(x, y) ==
  [state |-> Zero, length |-> 0, action |-> Zero, term |-> "no",
   reward |-> Zero, sums |-> {}, command |-> 0, commandLeft |-> x,
   eventLeft |-> y, triggeredAt |-> 0, triggered |-> FALSE,
   history |-> [i \in Frames |-> ZeroFrame], pushed |-> FALSE,
   episode |-> NoEpisode,
   report |-> [state |-> Zero, length |-> 0, sums |-> {}],
   exported |-> NoEpisode, success |-> FALSE, exports |-> 0,
   outcome |-> FALSE, ended |-> [t |-> 0, success |-> FALSE],
   commands |-> <<>>, events |-> <<>>, triggers |-> <<>>]

-----------------------------------------------------------------------------
(* Before and during the physics steps. *)

\* ActionManager.process_action: the action is known by the step it is for.
ProcessAction(r) == [r EXCEPT !.action = [ep |-> r.state.ep, t |-> r.state.t + 1]]

\* RecorderManager.record_pre_step
RecordPreStep(r) == [r EXCEPT !.episode.obs = Append(@, r.history[1]),
                              !.episode.actions = Append(@, r.action)]

\* The decimation loop and the counters behind it.
Simulate(r) == [r EXCEPT !.state.t = @ + 1, !.length = @ + 1]

\* TerminationManager.compute
TerminationCompute(r, d) == [r EXCEPT !.term = d, !.outcome = d = "success"]

\* RewardManager.compute
RewardCompute(r) == [r EXCEPT !.reward = r.state, !.sums = @ \cup {r.state}]

\* RecorderManager.record_post_step
RecordPostStep(r) == [r EXCEPT !.episode.states = Append(@, r.state)]

-----------------------------------------------------------------------------
(* A reset. *)

\* RecorderManager.record_pre_reset and export_episodes: the success of the
\* episode is what the termination term said last.  An empty episode is not
\* exported.
RecordPreReset(r) ==
  LET exported == IF r.episode = NoEpisode
                  THEN r
                  ELSE [r EXCEPT !.exported = r.episode,
                                 !.success = r.term = "success",
                                 !.exports = @ + 1]
  IN  [exported EXCEPT !.episode = NoEpisode,
                       !.ended = [t |-> r.state.t, success |-> r.outcome],
                       !.outcome = FALSE]

\* CurriculumManager.compute
CurriculumCompute(r) ==
  [r EXCEPT !.report.state = r.state, !.report.length = r.length]

\* InteractiveScene.reset and the events that set the new state
SceneReset(r) == [r EXCEPT !.state = [ep |-> @.ep + 1, t |-> 0],
                           !.commands = <<>>, !.events = <<>>]

\* Mutant: a reset that comes too early puts the event off.
ApplyResetEventPutOff(r, n) ==
  LET valid == \/ MinStepCount = 0
               \/ n - r.triggeredAt >= MinStepCount
               \/ r.triggeredAt = 0 /\ ~r.triggered
  IN  [r EXCEPT !.triggeredAt = n,
                !.triggered   = @ \/ valid,
                !.triggers    = Append(@, [at |-> n, applied |-> valid])]

\* EventManager.apply in mode "reset", of an event with a minimum step count
ApplyResetEvent(r, n) ==
  LET valid == \/ MinStepCount = 0
               \/ n - r.triggeredAt >= MinStepCount
               \/ r.triggeredAt = 0 /\ ~r.triggered
  IN  [r EXCEPT !.triggeredAt = IF valid THEN n ELSE @,
                !.triggered   = @ \/ valid,
                !.triggers    = Append(@, [at |-> n, applied |-> valid])]

\* Mutant: the number of pushes is kept.
ObservationResetPushed(r) == [r EXCEPT !.history = [i \in Frames |-> ZeroFrame]]

\* ObservationManager.reset: CircularBuffer.reset
ObservationReset(r) ==
  [r EXCEPT !.history = [i \in Frames |-> ZeroFrame], !.pushed = FALSE]

\* ActionManager.reset
ActionReset(r) == [r EXCEPT !.action = Zero]

\* RewardManager.reset
RewardReset(r) == [r EXCEPT !.report.sums = r.sums, !.sums = {}]

\* CommandTerm._resample
Resample(r, x) == [r EXCEPT !.commandLeft = x, !.command = @ + 1,
                            !.commands = Append(@, r.state.t)]

\* CommandTerm.reset
CommandReset(r, x) == Resample([r EXCEPT !.command = 0], x)

\* EventManager.reset: an interval in global time goes on.
EventReset(r, y) == [r EXCEPT !.eventLeft = y]

\* RecorderManager.reset, and the length of the new episode
RecorderReset(r) == [r EXCEPT !.episode = NoEpisode, !.length = 0]

\* RecorderManager.record_post_reset
RecordPostReset(r) == [r EXCEPT !.episode.initial = Append(@, r.state)]

\* Mutant: the curriculum is computed from the new state.
ResetIdxCurriculumLate(r, n) ==
  LET scene == CurriculumCompute(ApplyResetEvent(SceneReset(RecordPreReset(r)), n))
      mdp   == RewardReset(ActionReset(ObservationReset(scene)))
  IN  {RecordPostReset(RecorderReset(EventReset(CommandReset(mdp, x), y))) :
         x \in CommandRange, y \in IntervalRange}

\* _reset_idx, between the two calls of the recorder, in environment step n.
\* TerminationManager.reset keeps what the terms said last.
ResetIdx(r, n) ==
  LET scene == ApplyResetEvent(SceneReset(CurriculumCompute(RecordPreReset(r))), n)
      mdp   == RewardReset(ActionReset(ObservationReset(scene)))
  IN  {RecordPostReset(RecorderReset(EventReset(CommandReset(mdp, x), y))) :
         x \in CommandRange, y \in IntervalRange}

-----------------------------------------------------------------------------
(* After the resets of a step. *)

\* CommandTerm.compute
CommandCompute(r) ==
  LET left == [r EXCEPT !.commandLeft = @ - 1]
  IN  IF left.commandLeft <= 0 THEN {Resample(left, x) : x \in CommandRange}
                               ELSE {left}

\* EventManager.apply in mode "interval"
ApplyIntervalEvent(r) ==
  LET left == [r EXCEPT !.eventLeft = @ - 1]
  IN  IF left.eventLeft <= 0
      THEN {[left EXCEPT !.eventLeft = y, !.events = Append(@, r.state.t)] :
              y \in IntervalRange}
      ELSE {left}

\* What the observation terms read.
Frame(r) == [state |-> r.state, command |-> r.command, action |-> r.action,
             length |-> r.length]

\* ObservationManager.compute(update_history=True): CircularBuffer.append.  The
\* first frame after a reset fills the buffer.
ObservationCompute(r) ==
  LET filled == IF r.pushed THEN r.history ELSE [i \in Frames |-> Frame(r)]
  IN  [r EXCEPT !.history = [i \in Frames |-> IF i = 1 THEN Frame(r) ELSE filled[i - 1]],
                !.pushed = TRUE]

-----------------------------------------------------------------------------
Init ==
  /\ steps = 0 /\ resets = 0 /\ globalAt = 0
  /\ globalLeft \in GlobalRange
  /\ row \in [Envs -> {NewRow(x, y) : x \in CommandRange, y \in IntervalRange}]

\* One of the rows S(e) for each environment.
EachOf(S(_)) == {f \in [Envs -> UNION {S(e) : e \in Envs}] : \A e \in Envs : f[e] \in S(e)}

\* Mutant: the recorder is called before the action is processed.
SteppedRecordFirst(r, d) ==
  RecordPostStep(RewardCompute(TerminationCompute(
    Simulate(ProcessAction(RecordPreStep(r))), d)))

\* ManagerBasedRLEnv.step, up to the resets
Stepped(r, d) ==
  RecordPostStep(RewardCompute(TerminationCompute(
    Simulate(RecordPreStep(ProcessAction(r))), d)))

\* ... with the resets and what follows
StepRows(r, d) ==
  LET played == Stepped(r, d)
      reset  == IF d = "no" THEN {played} ELSE ResetIdx(played, steps + 1)
      moved  == UNION {CommandCompute(q) : q \in reset}
  IN  {ObservationCompute(q) : q \in UNION {ApplyIntervalEvent(m) : m \in moved}}

\* step(): an environment is stepped after it was reset once.
Step(done) ==
  /\ steps < MaxSteps /\ \A e \in Envs : row[e].state.ep > 0
  /\ steps' = steps + 1
  /\ row' \in EachOf(LAMBDA e : StepRows(row[e], done[e]))
  /\ IF globalLeft - 1 <= 0
     THEN globalLeft' \in GlobalRange /\ globalAt' = steps + 1
     ELSE globalLeft' = globalLeft - 1 /\ UNCHANGED globalAt
  /\ UNCHANGED resets

\* reset(env_ids=E): the observations of all environments are computed, also of
\* those that are not reset.
Reset(E) ==
  /\ resets < MaxResets
  /\ resets' = resets + 1
  /\ row' \in EachOf(LAMBDA e :
       {ObservationCompute(q) : q \in IF e \in E THEN ResetIdx(row[e], steps) ELSE {row[e]}})
  /\ UNCHANGED <<steps, globalLeft, globalAt>>

Done == steps = MaxSteps /\ resets = MaxResets

\* The first call resets all environments.  The last disjunct keeps the bounds
\* from looking like a deadlock.
Next == \/ \E done \in [Envs -> {"no", "success", "fail"}] : Step(done)
        \/ \E E \in SUBSET Envs \ {{}} : (resets = 0 => E = Envs) /\ Reset(E)
        \/ Done /\ UNCHANGED vars

\* No call of step or reset is ever due: the caller may stop.
Spec == Init /\ [][Next]_vars

-----------------------------------------------------------------------------
FrameType   == [state : Stamp, command : Nat, action : Stamp, length : Nat]
EpisodeType == [initial : Seq(Stamp), obs : Seq(FrameType), actions : Seq(Stamp),
                states : Seq(Stamp)]
RowType ==
  [state : Stamp, length : Nat, action : Stamp, term : {"no", "success", "fail"},
   reward : Stamp, sums : SUBSET Stamp, command : Nat, commandLeft : Nat,
   eventLeft : Nat, triggeredAt : Nat, triggered : BOOLEAN,
   history : [Frames -> FrameType], pushed : BOOLEAN, episode : EpisodeType,
   report : [state : Stamp, length : Nat, sums : SUBSET Stamp],
   exported : EpisodeType, success : BOOLEAN, exports : Nat,
   outcome : BOOLEAN, ended : [t : Nat, success : BOOLEAN],
   commands : Seq(Nat), events : Seq(Nat),
   triggers : Seq([at : Nat, applied : BOOLEAN])]

(***************************************************************************)
(* The types; an interval that has passed is sampled anew in the same      *)
(* call, so that none is ever at or below zero between two calls.          *)
(***************************************************************************)
TypeOK ==
  /\ steps \in 0 .. MaxSteps /\ resets \in 0 .. MaxResets
  /\ globalLeft \in Nat \ {0} /\ globalAt \in 0 .. steps
  /\ row \in [Envs -> RowType]
  /\ \A e \in Envs : row[e].commandLeft > 0 /\ row[e].eventLeft > 0

(***************************************************************************)
(* What the policy is shown.  The newest frame is that of the present      *)
(* state, command, action and length, also in an environment that the step *)
(* has just reset; every frame of the history is of the present episode,   *)
(* and no step is missing between two of them.  (A frame may be there      *)
(* twice: the first fills the buffer, and the reset of other environments  *)
(* appends once more.)                                                     *)
(***************************************************************************)
ObservationsOfNewEpisode ==
  \A e \in Envs : LET r == row[e] h == row[e].history IN r.state.ep > 0 =>
    /\ h[1] = Frame(r) /\ r.command > 0
    /\ \A i \in Frames :
         /\ h[i].state.ep = r.state.ep /\ h[i].length = h[i].state.t
         /\ h[i].action = IF h[i].length = 0 THEN Zero ELSE h[i].state
         /\ i > 1 => h[i - 1].length - h[i].length \in {0, 1}

(***************************************************************************)
(* What is reported of the episode a reset ends is all of that episode and *)
(* nothing of the next: the curriculum is given the last state and the     *)
(* full length, the sums of the rewards have every step once, and the      *)
(* reward of the step that ended it is that of its last state.             *)
(***************************************************************************)
EndedEpisodeReported ==
  \A e \in Envs : LET r == row[e] IN r.state.ep > 0 =>
    LET last == [ep |-> r.state.ep - 1, t |-> r.ended.t]
    IN  /\ r.report.state = last /\ r.report.length = last.t
        /\ r.report.sums = {[ep |-> last.ep, t |-> i] : i \in 1 .. last.t}
        /\ r.state.t > 0 => r.reward = r.state
        /\ r.state.t = 0 /\ last.t > 0 => r.reward = last

\* The recording m is of episode ep, complete up to step t: one initial state,
\* and for every step the observation before it, its action and the state after.
Recorded(m, ep, t) ==
  /\ m.initial = <<[ep |-> ep, t |-> 0]>>
  /\ \A s \in {m.obs, m.actions, m.states} : Len(s) = t
  /\ \A i \in 1 .. t :
       /\ m.obs[i].state = [ep |-> ep, t |-> i - 1]
       /\ m.actions[i] = [ep |-> ep, t |-> i] /\ m.states[i] = [ep |-> ep, t |-> i]

(***************************************************************************)
(* The recording of an environment is that of its present episode, and     *)
(* observations, actions and states are aligned; the episode exported last *)
(* is the one that ended last, complete, and is called a success if it     *)
(* was; every episode is exported.  Episodes without a step are left out:  *)
(* see SuccessOfEpisode.                                                   *)
(***************************************************************************)
RecordingAligned ==
  \A e \in Envs : LET r == row[e] IN
    /\ IF r.state.ep = 0 THEN r.episode = NoEpisode
                         ELSE Recorded(r.episode, r.state.ep, r.state.t)
    /\ r.state.ep > 0 => r.exports = r.state.ep - 1
    /\ r.exports > 0 => Recorded(r.exported, r.exports, r.ended.t)
    /\ r.exports > 0 /\ r.ended.t > 0 => r.success = r.ended.success

(***************************************************************************)
(* The times s at which something happened by time now: hi is never        *)
(* exceeded, also not by the time that has passed since, and between two   *)
(* there are at least lo.  The first may come one step early, because the  *)
(* step that resets an environment counts for its new episode, too.        *)
(***************************************************************************)
Spaced(s, now, R) ==
  LET times == <<0>> \o s
  IN  /\ \A i \in 1 .. Len(s) : \E x \in R :
           times[i + 1] - times[i] = x \/ (i = 1 /\ times[i + 1] = x - 1)
      /\ \E x \in R : now - times[Len(times)] < x

(***************************************************************************)
(* Interval events and resampled commands keep to their ranges within an   *)
(* episode, whenever the other environments are reset; nothing of the      *)
(* interval of the last episode is left.  The event in global time is due  *)
(* within its range of the last time, whatever is reset.                   *)
(***************************************************************************)
IntervalsKept ==
  /\ \A e \in Envs : LET r == row[e] IN r.state.ep > 0 =>
       /\ Spaced(r.events, r.state.t, IntervalRange)
       /\ Len(r.commands) > 0 /\ r.commands[1] = 0
       /\ Spaced(Tail(r.commands), r.state.t, CommandRange)
  /\ steps - globalAt + globalLeft \in GlobalRange

(***************************************************************************)
(* A reset event with a minimum step count is applied to an environment at *)
(* its first reset, and after that exactly at the resets that come at      *)
(* least that many steps after the one it was applied at last: resets in   *)
(* between neither apply it nor put it off.                                *)
(***************************************************************************)
ResetEventsDue ==
  \A e \in Envs : LET s == row[e].triggers IN \A i \in 1 .. Len(s) :
    s[i].applied <=> \A j \in 1 .. i - 1 : s[j].applied => s[i].at - s[j].at >= MinStepCount

\* The timing of every kind of event, under any pattern of resets.
EventsOnTime == IntervalsKept /\ ResetEventsDue

(***************************************************************************)
(* An exported episode is called a success only if it ended as one.        *)
(***************************************************************************)
SuccessOfEpisode ==
  \A e \in Envs : row[e].exports > 0 => row[e].success = row[e].ended.success
=============================================================================
