---------------------------- MODULE EnvStepProofs ----------------------------
(***************************************************************************)
(* Proofs about EnvStep for every number of environments, every length of  *)
(* the history, all ranges of the intervals and any number of steps and    *)
(* resets.                                                                 *)
(*                                                                         *)
(* A row is a record that a dozen managers write one after the other.  The *)
(* lemmas of the first two parts say of every call, field by field, what   *)
(* it changes; those of the third follow the row through the calls, from   *)
(* the end of a step or reset (AtRest) over the calls in between (Running, *)
(* Accounts) to the next (AtRest again).  The last part does the same for  *)
(* the times of the events.                                                *)
(***************************************************************************)
EXTENDS EnvStep, SequenceTheorems, TLAPS

-----------------------------------------------------------------------------
(* A step, up to the resets. *)

\* What the fields of a row are.
LEMMA RowFields ==
  ASSUME NEW r \in RowType
  PROVE  /\ r.state \in Stamp /\ r.length \in Nat /\ r.action \in Stamp
         /\ r.term \in {"no", "success", "fail"} /\ r.reward \in Stamp
         /\ r.sums \in SUBSET Stamp /\ r.command \in Nat /\ r.commandLeft \in Nat
         /\ r.eventLeft \in Nat /\ r.triggeredAt \in Nat /\ r.triggered \in BOOLEAN
         /\ r.history \in [Frames -> FrameType] /\ r.pushed \in BOOLEAN
         /\ r.episode \in EpisodeType
         /\ r.report \in [state : Stamp, length : Nat, sums : SUBSET Stamp]
         /\ r.exported \in EpisodeType /\ r.success \in BOOLEAN /\ r.exports \in Nat
         /\ r.outcome \in BOOLEAN /\ r.ended \in [t : Nat, success : BOOLEAN]
         /\ r.commands \in Seq(Nat) /\ r.events \in Seq(Nat)
         /\ r.triggers \in Seq([at : Nat, applied : BOOLEAN])
BY DEF RowType

\* A stamp is its episode and its step.
LEMMA StampFields ==
  ASSUME NEW s \in Stamp
  PROVE  s.ep \in Nat /\ s.t \in Nat /\ s = [ep |-> s.ep, t |-> s.t]
BY DEF Stamp

\* The calls of a step before the resets keep the type of a row.
LEMMA ProcessActionType ==
  ASSUME NEW r \in RowType
  PROVE  ProcessAction(r) \in RowType
<1>1. [ep |-> r.state.ep, t |-> r.state.t + 1] \in Stamp
  BY RowFields, StampFields DEF Stamp
<1>2. QED
  BY <1>1 DEF ProcessAction, RowType

\* ... record_pre_step,
LEMMA RecordPreStepType ==
  ASSUME NEW r \in RowType
  PROVE  RecordPreStep(r) \in RowType
<1> DEFINE m == [r.episode EXCEPT !.obs = Append(@, r.history[1]),
                                  !.actions = Append(@, r.action)]
<1>1. r.episode \in EpisodeType /\ r.history[1] \in FrameType /\ r.action \in Stamp
  BY RowFields, HistoryAssumption DEF Frames
<1>2. /\ Append(r.episode.obs, r.history[1]) \in Seq(FrameType)
      /\ Append(r.episode.actions, r.action) \in Seq(Stamp)
  BY <1>1 DEF EpisodeType
<1>3. m \in EpisodeType
  BY <1>1, <1>2 DEF EpisodeType
<1>4. RecordPreStep(r) = [r EXCEPT !.episode = m]
  BY DEF RecordPreStep, RowType, EpisodeType
<1>5. QED
  BY <1>3, <1>4 DEF RowType

\* ... the decimation loop,
LEMMA SimulateType ==
  ASSUME NEW r \in RowType
  PROVE  Simulate(r) \in RowType
<1> DEFINE now == [r.state EXCEPT !.t = @ + 1]
<1>1. r.state \in Stamp /\ r.length + 1 \in Nat
  BY RowFields
<1>2. now \in Stamp
  BY <1>1 DEF Stamp
<1>3. Simulate(r) = [r EXCEPT !.state = now, !.length = r.length + 1]
  BY DEF Simulate, RowType
<1>4. QED
  BY <1>1, <1>2, <1>3 DEF RowType

\* ... the terminations and the rewards,
LEMMA ComputeType ==
  ASSUME NEW r \in RowType, NEW d \in {"no", "success", "fail"}
  PROVE  RewardCompute(TerminationCompute(r, d)) \in RowType
<1>1. TerminationCompute(r, d) \in RowType
  BY DEF TerminationCompute, RowType
<1>2. \A q \in RowType : RewardCompute(q) \in RowType
  <2>1. ASSUME NEW q \in RowType PROVE q.sums \cup {q.state} \in SUBSET Stamp
    BY RowFields
  <2>2. QED
    BY <2>1, RowFields DEF RewardCompute, RowType
<1>3. QED
  BY <1>1, <1>2

\* ... and record_post_step.
LEMMA RecordPostStepType ==
  ASSUME NEW r \in RowType
  PROVE  RecordPostStep(r) \in RowType
<1> DEFINE m == [r.episode EXCEPT !.states = Append(@, r.state)]
<1>1. r.episode \in EpisodeType /\ r.state \in Stamp
  BY RowFields
<1>2. m \in EpisodeType
  <2>1. Append(r.episode.states, r.state) \in Seq(Stamp)
    BY <1>1 DEF EpisodeType
  <2>2. QED
    BY <1>1, <2>1 DEF EpisodeType
<1>3. RecordPostStep(r) = [r EXCEPT !.episode = m]
  BY DEF RecordPostStep, RowType, EpisodeType
<1>4. QED
  BY <1>2, <1>3 DEF RowType

\* Rows that agree on what a kind of managers keeps.
SameTimers(q, r) ==
  /\ q.commandLeft = r.commandLeft /\ q.commands = r.commands
  /\ q.eventLeft = r.eventLeft /\ q.events = r.events
  /\ q.triggeredAt = r.triggeredAt /\ q.triggered = r.triggered
  /\ q.triggers = r.triggers

\* ... of what is reported and exported,
SameReports(q, r) ==
  /\ q.report = r.report /\ q.exported = r.exported /\ q.success = r.success
  /\ q.exports = r.exports /\ q.ended = r.ended

\* ... of what the policy is shown.
SameView(q, r) ==
  q.command = r.command /\ q.history = r.history /\ q.pushed = r.pushed

\* What each call of a step changes, and what it leaves alone: the new action,
LEMMA ProcessActionFields ==
  ASSUME NEW r \in RowType
  PROVE  LET q == ProcessAction(r) IN
         /\ SameTimers(q, r) /\ SameReports(q, r) /\ SameView(q, r)
         /\ q.state = r.state /\ q.length = r.length /\ q.sums = r.sums
         /\ q.episode = r.episode
         /\ q.action = [ep |-> r.state.ep, t |-> r.state.t + 1]
BY DEF RowType, ProcessAction, SameTimers, SameReports, SameView

\* ... the observation and the action recorded,
LEMMA RecordPreStepFields ==
  ASSUME NEW r \in RowType
  PROVE  LET q == RecordPreStep(r) IN
         /\ SameTimers(q, r) /\ SameReports(q, r) /\ SameView(q, r)
         /\ q.state = r.state /\ q.length = r.length /\ q.sums = r.sums
         /\ q.action = r.action
         /\ q.episode.initial = r.episode.initial
         /\ q.episode.obs = Append(r.episode.obs, r.history[1])
         /\ q.episode.actions = Append(r.episode.actions, r.action)
         /\ q.episode.states = r.episode.states
BY DEF RowType, EpisodeType, RecordPreStep, SameTimers, SameReports, SameView

\* ... the next state,
LEMMA SimulateFields ==
  ASSUME NEW r \in RowType
  PROVE  LET q == Simulate(r) IN
         /\ SameTimers(q, r) /\ SameReports(q, r) /\ SameView(q, r)
         /\ q.state = [ep |-> r.state.ep, t |-> r.state.t + 1]
         /\ q.length = r.length + 1 /\ q.sums = r.sums
         /\ q.action = r.action /\ q.episode = r.episode
BY DEF RowType, Stamp, Simulate, SameTimers, SameReports, SameView

\* ... its termination and its reward,
LEMMA ComputeFields ==
  ASSUME NEW r \in RowType, NEW d \in {"no", "success", "fail"}
  PROVE  LET q == RewardCompute(TerminationCompute(r, d)) IN
         /\ SameTimers(q, r) /\ SameReports(q, r) /\ SameView(q, r)
         /\ q.state = r.state /\ q.length = r.length /\ q.action = r.action
         /\ q.episode = r.episode
         /\ q.term = d /\ q.outcome = (d = "success")
         /\ q.reward = r.state /\ q.sums = r.sums \cup {r.state}
BY DEF RowType, TerminationCompute, RewardCompute, SameTimers, SameReports, SameView

\* ... and the state recorded.
LEMMA RecordPostStepFields ==
  ASSUME NEW r \in RowType
  PROVE  LET q == RecordPostStep(r) IN
         /\ SameTimers(q, r) /\ SameReports(q, r) /\ SameView(q, r)
         /\ q.state = r.state /\ q.length = r.length /\ q.action = r.action
         /\ q.term = r.term /\ q.outcome = r.outcome
         /\ q.reward = r.reward /\ q.sums = r.sums
         /\ q.episode.initial = r.episode.initial /\ q.episode.obs = r.episode.obs
         /\ q.episode.actions = r.episode.actions
         /\ q.episode.states = Append(r.episode.states, r.state)
BY DEF RowType, EpisodeType, RecordPostStep, SameTimers, SameReports, SameView

\* A step, up to the resets.
LEMMA SteppedFields ==
  ASSUME NEW r \in RowType, NEW d \in {"no", "success", "fail"}
  PROVE  LET q == Stepped(r, d)
             now == [ep |-> r.state.ep, t |-> r.state.t + 1]
         IN  /\ q \in RowType
             /\ SameTimers(q, r) /\ SameReports(q, r) /\ SameView(q, r)
             /\ q.state = now /\ q.length = r.length + 1 /\ q.action = now
             /\ q.term = d /\ q.outcome = (d = "success")
             /\ q.reward = now /\ q.sums = r.sums \cup {now}
             /\ q.episode.initial = r.episode.initial
             /\ q.episode.obs = Append(r.episode.obs, r.history[1])
             /\ q.episode.actions = Append(r.episode.actions, now)
             /\ q.episode.states = Append(r.episode.states, now)
<1> DEFINE a == ProcessAction(r)
           b == RecordPreStep(a)
           c == Simulate(b)
           p == RewardCompute(TerminationCompute(c, d))
           q == RecordPostStep(p)
<1>1. a \in RowType /\ b \in RowType /\ c \in RowType /\ p \in RowType /\ q \in RowType
  BY ProcessActionType, RecordPreStepType, SimulateType, ComputeType, RecordPostStepType
<1>2. q = Stepped(r, d)
  BY DEF Stepped
<1>3. /\ SameTimers(a, r) /\ SameReports(a, r) /\ SameView(a, r)
      /\ a.state = r.state /\ a.length = r.length /\ a.sums = r.sums
      /\ a.episode = r.episode
      /\ a.action = [ep |-> r.state.ep, t |-> r.state.t + 1]
  BY ProcessActionFields
<1>4. /\ SameTimers(b, a) /\ SameReports(b, a) /\ SameView(b, a)
      /\ b.state = a.state /\ b.length = a.length /\ b.sums = a.sums
      /\ b.action = a.action
      /\ b.episode.initial = a.episode.initial
      /\ b.episode.obs = Append(a.episode.obs, a.history[1])
      /\ b.episode.actions = Append(a.episode.actions, a.action)
      /\ b.episode.states = a.episode.states
  BY <1>1, RecordPreStepFields
<1>5. /\ SameTimers(c, b) /\ SameReports(c, b) /\ SameView(c, b)
      /\ c.state = [ep |-> b.state.ep, t |-> b.state.t + 1]
      /\ c.length = b.length + 1 /\ c.sums = b.sums
      /\ c.action = b.action /\ c.episode = b.episode
  BY <1>1, SimulateFields
<1>6. /\ SameTimers(p, c) /\ SameReports(p, c) /\ SameView(p, c)
      /\ p.state = c.state /\ p.length = c.length /\ p.action = c.action
      /\ p.episode = c.episode
      /\ p.term = d /\ p.outcome = (d = "success")
      /\ p.reward = c.state /\ p.sums = c.sums \cup {c.state}
  BY <1>1, ComputeFields
<1>7. /\ SameTimers(q, p) /\ SameReports(q, p) /\ SameView(q, p)
      /\ q.state = p.state /\ q.length = p.length /\ q.action = p.action
      /\ q.term = p.term /\ q.outcome = p.outcome
      /\ q.reward = p.reward /\ q.sums = p.sums
      /\ q.episode.initial = p.episode.initial /\ q.episode.obs = p.episode.obs
      /\ q.episode.actions = p.episode.actions
      /\ q.episode.states = Append(p.episode.states, p.state)
  BY <1>1, RecordPostStepFields
<1> HIDE DEF a, b, c, p, q
<1>8. /\ SameTimers(q, r) /\ SameReports(q, r) /\ SameView(q, r)
  BY <1>3, <1>4, <1>5, <1>6, <1>7 DEF SameTimers, SameReports, SameView
<1>9. a.history = r.history
  BY <1>3 DEF SameView
<1>10. QED
  BY <1>1, <1>2, <1>3, <1>4, <1>5, <1>6, <1>7, <1>8, <1>9

-----------------------------------------------------------------------------
(* A reset. *)

\* An empty recording is a recording.
LEMMA NoEpisodeType == NoEpisode \in EpisodeType
BY DEF NoEpisode, EpisodeType

\* The recording is exported unless it is empty, and the end is noted.
LEMMA RecordPreResetFields ==
  ASSUME NEW r \in RowType
  PROVE  LET q == RecordPreReset(r) IN
         /\ q \in RowType
         /\ SameTimers(q, r) /\ SameView(q, r)
         /\ q.state = r.state /\ q.length = r.length /\ q.action = r.action
         /\ q.term = r.term /\ q.reward = r.reward /\ q.sums = r.sums
         /\ q.episode = NoEpisode /\ q.outcome = FALSE /\ q.report = r.report
         /\ q.ended = [t |-> r.state.t, success |-> r.outcome]
         /\ IF r.episode = NoEpisode
            THEN q.exported = r.exported /\ q.success = r.success /\ q.exports = r.exports
            ELSE /\ q.exported = r.episode /\ q.success = (r.term = "success")
                 /\ q.exports = r.exports + 1
<1>1. /\ r.exports + 1 \in Nat /\ r.episode \in EpisodeType
      /\ (r.term = "success") \in BOOLEAN /\ FALSE \in BOOLEAN
      /\ [t |-> r.state.t, success |-> r.outcome] \in [t : Nat, success : BOOLEAN]
  BY RowFields, StampFields
<1> DEFINE cleared(y) == [y EXCEPT !.episode = NoEpisode,
                               !.ended = [t |-> r.state.t, success |-> r.outcome],
                               !.outcome = FALSE]
<1>0. ASSUME NEW y \in RowType PROVE cleared(y) \in RowType
  BY <1>1, NoEpisodeType DEF RowType
<1>2. CASE r.episode = NoEpisode
  <2>1. RecordPreReset(r) = [r EXCEPT !.episode = NoEpisode,
                             !.ended = [t |-> r.state.t, success |-> r.outcome],
                             !.outcome = FALSE]
    BY <1>2 DEF RecordPreReset
  <2>2. RecordPreReset(r) \in RowType
    BY <1>0, <2>1
  <2>3. QED
    BY <1>2, <2>1, <2>2 DEF RowType, SameTimers, SameView
<1>3. CASE r.episode # NoEpisode
  <2> DEFINE x == [r EXCEPT !.exported = r.episode, !.success = r.term = "success",
                            !.exports = @ + 1]
  <2>1. x \in RowType
    BY <1>1 DEF RowType
  <2>2. /\ SameTimers(x, r) /\ SameView(x, r)
        /\ x.state = r.state /\ x.length = r.length /\ x.action = r.action
        /\ x.term = r.term /\ x.reward = r.reward /\ x.sums = r.sums
        /\ x.report = r.report /\ x.exported = r.episode
        /\ x.success = (r.term = "success") /\ x.exports = r.exports + 1
    BY DEF RowType, SameTimers, SameView
  <2>3. RecordPreReset(r) = [x EXCEPT !.episode = NoEpisode,
                             !.ended = [t |-> r.state.t, success |-> r.outcome],
                             !.outcome = FALSE]
    BY <1>3 DEF RecordPreReset
  <2> HIDE DEF x
  <2>4. RecordPreReset(r) \in RowType
    BY <1>0, <2>1, <2>3
  <2>5. LET q == RecordPreReset(r) IN
        /\ SameTimers(q, x) /\ SameView(q, x)
        /\ q.state = x.state /\ q.length = x.length /\ q.action = x.action
        /\ q.term = x.term /\ q.reward = x.reward /\ q.sums = x.sums
        /\ q.report = x.report /\ q.exported = x.exported
        /\ q.success = x.success /\ q.exports = x.exports
        /\ q.episode = NoEpisode /\ q.outcome = FALSE
        /\ q.ended = [t |-> r.state.t, success |-> r.outcome]
    BY <2>1, <2>3 DEF RowType, SameTimers, SameView
  <2>6. QED
    BY <1>3, <2>2, <2>4, <2>5 DEF SameTimers, SameView
<1>4. QED
  BY <1>2, <1>3

\* The curriculum is given the present state.
LEMMA CurriculumComputeFields ==
  ASSUME NEW r \in RowType
  PROVE  LET q == CurriculumCompute(r) IN
         /\ q \in RowType
         /\ SameTimers(q, r) /\ SameView(q, r)
         /\ q.state = r.state /\ q.length = r.length /\ q.action = r.action
         /\ q.term = r.term /\ q.outcome = r.outcome /\ q.reward = r.reward
         /\ q.sums = r.sums /\ q.episode = r.episode
         /\ q.exported = r.exported /\ q.success = r.success /\ q.exports = r.exports
         /\ q.ended = r.ended
         /\ q.report.state = r.state /\ q.report.length = r.length
<1> DEFINE m == [r.report EXCEPT !.state = r.state, !.length = r.length]
<1>1. m \in [state : Stamp, length : Nat, sums : SUBSET Stamp]
  BY RowFields
<1>2. CurriculumCompute(r) = [r EXCEPT !.report = m]
  BY DEF CurriculumCompute, RowType
<1>3. CurriculumCompute(r) \in RowType
  BY <1>1, <1>2 DEF RowType
<1>4. QED
  BY <1>3 DEF CurriculumCompute, RowType, SameTimers, SameView

\* The scene begins the next episode.
LEMMA SceneResetFields ==
  ASSUME NEW r \in RowType
  PROVE  LET q == SceneReset(r) IN
         /\ q \in RowType
         /\ SameReports(q, r) /\ SameView(q, r)
         /\ q.length = r.length /\ q.action = r.action
         /\ q.term = r.term /\ q.outcome = r.outcome /\ q.reward = r.reward
         /\ q.sums = r.sums /\ q.episode = r.episode
         /\ q.state = [ep |-> r.state.ep + 1, t |-> 0]
         /\ q.commands = <<>> /\ q.events = <<>>
         /\ q.commandLeft = r.commandLeft /\ q.eventLeft = r.eventLeft
         /\ q.triggeredAt = r.triggeredAt /\ q.triggered = r.triggered
         /\ q.triggers = r.triggers
<1>1. [ep |-> r.state.ep + 1, t |-> 0] \in Stamp /\ <<>> \in Seq(Nat)
  BY RowFields, StampFields DEF Stamp
<1>2. SceneReset(r) \in RowType
  BY <1>1 DEF RowType, SceneReset
<1>3. QED
  BY <1>2 DEF SceneReset, RowType, SameReports, SameView

\* The reset event is due.
Valid(r, n) == \/ MinStepCount = 0
               \/ n - r.triggeredAt >= MinStepCount
               \/ r.triggeredAt = 0 /\ ~r.triggered

\* A reset event is applied and noted if it is due.
LEMMA ApplyResetEventFields ==
  ASSUME NEW r \in RowType, NEW n \in Nat
  PROVE  LET q == ApplyResetEvent(r, n) IN
         /\ q \in RowType
         /\ SameReports(q, r) /\ SameView(q, r)
         /\ q.state = r.state /\ q.length = r.length /\ q.action = r.action
         /\ q.term = r.term /\ q.outcome = r.outcome /\ q.reward = r.reward
         /\ q.sums = r.sums /\ q.episode = r.episode
         /\ q.commandLeft = r.commandLeft /\ q.commands = r.commands
         /\ q.eventLeft = r.eventLeft /\ q.events = r.events
         /\ q.triggeredAt = IF Valid(r, n) THEN n ELSE r.triggeredAt
         /\ q.triggered = (r.triggered \/ Valid(r, n))
         /\ q.triggers = Append(r.triggers, [at |-> n, applied |-> Valid(r, n)])
<1> DEFINE v == Valid(r, n)
<1>1. /\ v \in BOOLEAN /\ (IF v THEN n ELSE r.triggeredAt) \in Nat
      /\ (r.triggered \/ v) \in BOOLEAN
      /\ Append(r.triggers, [at |-> n, applied |-> v])
           \in Seq([at : Nat, applied : BOOLEAN])
  <2>1. v \in BOOLEAN
    BY DEF Valid
  <2> HIDE DEF v
  <2>2. QED
    BY <2>1, RowFields
<1>2. ApplyResetEvent(r, n) = [r EXCEPT !.triggeredAt = IF v THEN n ELSE r.triggeredAt,
                                        !.triggered = r.triggered \/ v,
                                        !.triggers = Append(r.triggers, [at |-> n, applied |-> v])]
  BY DEF ApplyResetEvent, Valid
<1> HIDE DEF v
<1>3. ApplyResetEvent(r, n) \in RowType
  <2> DEFINE a == IF v THEN n ELSE r.triggeredAt
             b == r.triggered \/ v
             c == Append(r.triggers, [at |-> n, applied |-> v])
  <2>1. /\ a \in Nat /\ b \in BOOLEAN /\ c \in Seq([at : Nat, applied : BOOLEAN])
        /\ ApplyResetEvent(r, n) =
             [r EXCEPT !.triggeredAt = a, !.triggered = b, !.triggers = c]
    BY <1>1, <1>2
  <2> HIDE DEF a, b, c
  <2>2. [r EXCEPT !.triggeredAt = a, !.triggered = b, !.triggers = c] \in RowType
    BY <2>1 DEF RowType
  <2>3. QED
    BY <2>1, <2>2
<1>4. QED
  BY <1>2, <1>3 DEF RowType, SameReports, SameView, v

\* Observations, actions and rewards are reset; the sums are reported.
LEMMA MdpResetFields ==
  ASSUME NEW r \in RowType
  PROVE  LET q == RewardReset(ActionReset(ObservationReset(r))) IN
         /\ q \in RowType /\ SameTimers(q, r)
         /\ q.state = r.state /\ q.length = r.length
         /\ q.term = r.term /\ q.outcome = r.outcome /\ q.reward = r.reward
         /\ q.episode = r.episode /\ q.exported = r.exported
         /\ q.success = r.success /\ q.exports = r.exports /\ q.ended = r.ended
         /\ q.action = Zero /\ q.sums = {} /\ q.pushed = FALSE
         /\ q.report.state = r.report.state /\ q.report.length = r.report.length
         /\ q.report.sums = r.sums
<1> DEFINE h == [i \in Frames |-> ZeroFrame]
           a == [r EXCEPT !.history = h, !.pushed = FALSE]
           b == [a EXCEPT !.action = Zero]
           m == [b.report EXCEPT !.sums = b.sums]
           q == [[b EXCEPT !.report = m] EXCEPT !.sums = {}]
<1>1. h \in [Frames -> FrameType] /\ FALSE \in BOOLEAN /\ Zero \in Stamp
  BY DEF ZeroFrame, Zero, FrameType, Stamp
<1>2. a \in RowType
  BY <1>1 DEF RowType
<1>3. /\ SameTimers(a, r) /\ SameReports(a, r)
      /\ a.state = r.state /\ a.length = r.length /\ a.sums = r.sums
      /\ a.term = r.term /\ a.outcome = r.outcome /\ a.reward = r.reward
      /\ a.episode = r.episode /\ a.pushed = FALSE
  BY DEF RowType, SameTimers, SameReports
<1>4. ObservationReset(r) = a
  BY DEF ObservationReset
<1> HIDE DEF a
<1>5. b \in RowType
  BY <1>1, <1>2 DEF RowType
<1>6. /\ SameTimers(b, a) /\ SameReports(b, a)
      /\ b.state = a.state /\ b.length = a.length /\ b.sums = a.sums
      /\ b.term = a.term /\ b.outcome = a.outcome /\ b.reward = a.reward
      /\ b.episode = a.episode /\ b.pushed = a.pushed /\ b.action = Zero
  BY <1>2 DEF RowType, SameTimers, SameReports
<1>7. ActionReset(a) = b
  BY DEF ActionReset
<1> HIDE DEF b
<1>8. m \in [state : Stamp, length : Nat, sums : SUBSET Stamp]
  BY <1>5, RowFields
<1>9. q \in RowType
  BY <1>5, <1>8 DEF RowType
<1>10. RewardReset(b) = q
  BY <1>5 DEF RewardReset, RowType
<1>11. /\ SameTimers(q, b)
       /\ q.state = b.state /\ q.length = b.length
       /\ q.term = b.term /\ q.outcome = b.outcome /\ q.reward = b.reward
       /\ q.episode = b.episode /\ q.exported = b.exported /\ q.success = b.success
       /\ q.exports = b.exports /\ q.ended = b.ended
       /\ q.action = b.action /\ q.sums = {} /\ q.pushed = b.pushed
       /\ q.report.state = b.report.state /\ q.report.length = b.report.length
       /\ q.report.sums = b.sums
  BY <1>5 DEF RowType, SameTimers
<1> HIDE DEF q
<1>12. QED
  BY <1>3, <1>4, <1>6, <1>7, <1>9, <1>10, <1>11 DEF SameTimers, SameReports

\* A command is drawn.
LEMMA ResampleFields ==
  ASSUME NEW r \in RowType, NEW x \in Nat
  PROVE  LET q == Resample(r, x) IN
         /\ q \in RowType /\ SameReports(q, r)
         /\ q.state = r.state /\ q.length = r.length /\ q.action = r.action
         /\ q.term = r.term /\ q.outcome = r.outcome /\ q.reward = r.reward
         /\ q.sums = r.sums /\ q.episode = r.episode
         /\ q.history = r.history /\ q.pushed = r.pushed
         /\ q.eventLeft = r.eventLeft /\ q.events = r.events
         /\ q.triggeredAt = r.triggeredAt /\ q.triggered = r.triggered
         /\ q.triggers = r.triggers
         /\ q.command = r.command + 1 /\ q.commandLeft = x
         /\ q.commands = Append(r.commands, r.state.t)
<1>1. r.command + 1 \in Nat /\ Append(r.commands, r.state.t) \in Seq(Nat)
  BY RowFields, StampFields
<1>2. Resample(r, x) \in RowType
  BY <1>1 DEF RowType, Resample
<1>3. QED
  BY <1>2 DEF Resample, RowType, SameReports

\* A reset draws the first command of the episode.
LEMMA CommandResetFields ==
  ASSUME NEW r \in RowType, NEW x \in Nat
  PROVE  LET q == CommandReset(r, x) IN
         /\ q \in RowType /\ SameReports(q, r)
         /\ q.state = r.state /\ q.length = r.length /\ q.action = r.action
         /\ q.term = r.term /\ q.outcome = r.outcome /\ q.reward = r.reward
         /\ q.sums = r.sums /\ q.episode = r.episode
         /\ q.history = r.history /\ q.pushed = r.pushed
         /\ q.eventLeft = r.eventLeft /\ q.events = r.events
         /\ q.triggeredAt = r.triggeredAt /\ q.triggered = r.triggered
         /\ q.triggers = r.triggers
         /\ q.command = 1 /\ q.commandLeft = x
         /\ q.commands = Append(r.commands, r.state.t)
<1> DEFINE a == [r EXCEPT !.command = 0]
<1>1. a \in RowType
  BY DEF RowType
<1>2. /\ SameReports(a, r)
      /\ a.state = r.state /\ a.length = r.length /\ a.action = r.action
      /\ a.term = r.term /\ a.outcome = r.outcome /\ a.reward = r.reward
      /\ a.sums = r.sums /\ a.episode = r.episode
      /\ a.history = r.history /\ a.pushed = r.pushed
      /\ a.eventLeft = r.eventLeft /\ a.events = r.events
      /\ a.triggeredAt = r.triggeredAt /\ a.triggered = r.triggered
      /\ a.triggers = r.triggers /\ a.command = 0 /\ a.commands = r.commands
  BY DEF RowType, SameReports
<1> DEFINE q == Resample(a, x)
<1>3. CommandReset(r, x) = q
  BY DEF CommandReset
<1> HIDE DEF a
<1>4. /\ q \in RowType /\ SameReports(q, a)
      /\ q.state = a.state /\ q.length = a.length /\ q.action = a.action
      /\ q.term = a.term /\ q.outcome = a.outcome /\ q.reward = a.reward
      /\ q.sums = a.sums /\ q.episode = a.episode
      /\ q.history = a.history /\ q.pushed = a.pushed
      /\ q.eventLeft = a.eventLeft /\ q.events = a.events
      /\ q.triggeredAt = a.triggeredAt /\ q.triggered = a.triggered
      /\ q.triggers = a.triggers
      /\ q.command = a.command + 1 /\ q.commandLeft = x
      /\ q.commands = Append(a.commands, a.state.t)
  BY <1>1, ResampleFields
<1> HIDE DEF q
<1>5. SameReports(q, r) /\ q.command = 1
  BY <1>2, <1>4 DEF SameReports
<1>6. QED
  BY <1>2, <1>3, <1>4, <1>5

\* q is r with its episode begun.
Begun(q, r, y) ==
  /\ q \in RowType /\ SameReports(q, r) /\ SameView(q, r)
  /\ q.state = r.state /\ q.action = r.action
  /\ q.term = r.term /\ q.outcome = r.outcome /\ q.reward = r.reward
  /\ q.sums = r.sums /\ q.commandLeft = r.commandLeft
  /\ q.commands = r.commands /\ q.events = r.events
  /\ q.triggeredAt = r.triggeredAt /\ q.triggered = r.triggered
  /\ q.triggers = r.triggers
  /\ q.eventLeft = y /\ q.length = 0
  /\ q.episode.initial = <<r.state>> /\ q.episode.obs = <<>>
  /\ q.episode.actions = <<>> /\ q.episode.states = <<>>

\* The last calls of a reset begin the recording.
LEMMA NewEpisodeFields ==
  ASSUME NEW r \in RowType, NEW y \in Nat
  PROVE  Begun(RecordPostReset(RecorderReset(EventReset(r, y))), r, y)
<1> DEFINE a == [[r EXCEPT !.eventLeft = y] EXCEPT !.episode = NoEpisode, !.length = 0]
           m == [a.episode EXCEPT !.initial = Append(@, a.state)]
           q == [a EXCEPT !.episode = m]
<1>1. a \in RowType
  <2>1. ASSUME NEW b \in RowType
        PROVE  [b EXCEPT !.episode = NoEpisode, !.length = 0] \in RowType
    BY NoEpisodeType DEF RowType
  <2>2. [r EXCEPT !.eventLeft = y] \in RowType
    BY DEF RowType
  <2>3. QED
    BY <2>1, <2>2
<1>2. /\ SameReports(a, r) /\ SameView(a, r)
      /\ a.state = r.state /\ a.action = r.action
      /\ a.term = r.term /\ a.outcome = r.outcome /\ a.reward = r.reward
      /\ a.sums = r.sums /\ a.commandLeft = r.commandLeft
      /\ a.commands = r.commands /\ a.events = r.events
      /\ a.triggeredAt = r.triggeredAt /\ a.triggered = r.triggered
      /\ a.triggers = r.triggers /\ a.eventLeft = y /\ a.length = 0
      /\ a.episode = NoEpisode
  BY DEF RowType, SameReports, SameView
<1>3. RecorderReset(EventReset(r, y)) = a
  BY DEF RecorderReset, EventReset
<1> HIDE DEF a
<1>4. /\ m \in EpisodeType
      /\ m.initial = <<a.state>> /\ m.obs = <<>> /\ m.actions = <<>> /\ m.states = <<>>
  <2>1. /\ a.state \in Stamp /\ Append(<<>>, a.state) = <<a.state>>
        /\ <<a.state>> \in Seq(Stamp)
    BY <1>1, RowFields
  <2>2. m = [initial |-> <<a.state>>, obs |-> <<>>, actions |-> <<>>, states |-> <<>>]
    BY <1>2, <2>1 DEF NoEpisode
  <2> HIDE DEF m
  <2>3. m \in EpisodeType
    BY <2>1, <2>2 DEF EpisodeType
  <2>4. QED
    BY <2>2, <2>3
<1>5. RecordPostReset(a) = q
  BY <1>1 DEF RecordPostReset, RowType
<1> HIDE DEF m
<1>6. q \in RowType
  BY <1>1, <1>4 DEF RowType
<1>7. /\ SameReports(q, a) /\ SameView(q, a)
      /\ q.state = a.state /\ q.action = a.action
      /\ q.term = a.term /\ q.outcome = a.outcome /\ q.reward = a.reward
      /\ q.sums = a.sums /\ q.commandLeft = a.commandLeft
      /\ q.commands = a.commands /\ q.events = a.events
      /\ q.triggeredAt = a.triggeredAt /\ q.triggered = a.triggered
      /\ q.triggers = a.triggers /\ q.eventLeft = a.eventLeft /\ q.length = a.length
      /\ q.episode = m
  BY <1>1 DEF RowType, SameReports, SameView
<1> HIDE DEF q
<1>8. Begun(q, r, y)
  BY <1>2, <1>4, <1>6, <1>7 DEF Begun, SameReports, SameView
<1>9. QED
  BY <1>3, <1>5, <1>8

\* A reset, as a whole.
\* Row q is row r after a reset in environment step n.
WasReset(q, r, n) ==
  /\ q \in RowType
  /\ q.state = [ep |-> r.state.ep + 1, t |-> 0]
  /\ q.length = 0 /\ q.action = Zero /\ q.sums = {} /\ q.pushed = FALSE
  /\ q.command = 1 /\ q.commandLeft \in CommandRange
  /\ q.commands = <<0>> /\ q.eventLeft \in IntervalRange /\ q.events = <<>>
  /\ q.episode.initial = <<q.state>> /\ q.episode.obs = <<>>
  /\ q.episode.actions = <<>> /\ q.episode.states = <<>>
  /\ q.outcome = FALSE /\ q.reward = r.reward
  /\ q.report.state = r.state /\ q.report.length = r.length
  /\ q.report.sums = r.sums
  /\ q.ended = [t |-> r.state.t, success |-> r.outcome]
  /\ IF r.episode = NoEpisode
     THEN q.exported = r.exported /\ q.success = r.success /\ q.exports = r.exports
     ELSE /\ q.exported = r.episode /\ q.success = (r.term = "success")
          /\ q.exports = r.exports + 1
  /\ q.triggeredAt = (IF Valid(r, n) THEN n ELSE r.triggeredAt)
  /\ q.triggered = (r.triggered \/ Valid(r, n))
  /\ q.triggers = Append(r.triggers, [at |-> n, applied |-> Valid(r, n)])

\* What a reset changes, and what it leaves alone.
LEMMA ResetFields ==
  ASSUME NEW r \in RowType, NEW n \in Nat, NEW q \in ResetIdx(r, n)
  PROVE  WasReset(q, r, n)
<1> DEFINE a == RecordPreReset(r)
           b == CurriculumCompute(a)
           c == SceneReset(b)
           d == ApplyResetEvent(c, n)
           p == RewardReset(ActionReset(ObservationReset(d)))
<1>1. PICK x \in CommandRange, y \in IntervalRange :
        q = RecordPostReset(RecorderReset(EventReset(CommandReset(p, x), y)))
  BY DEF ResetIdx
<1>2. x \in Nat /\ y \in Nat
  BY RangeAssumption
<1> DEFINE f == CommandReset(p, x)
<1>3. a \in RowType /\ b \in RowType /\ c \in RowType /\ d \in RowType /\ p \in RowType
      /\ f \in RowType
  BY <1>1, <1>2, RecordPreResetFields, CurriculumComputeFields, SceneResetFields,
     ApplyResetEventFields, MdpResetFields, CommandResetFields, NewEpisodeFields
<1>4. /\ SameTimers(a, r)
      /\ a.state = r.state /\ a.length = r.length
      /\ a.reward = r.reward /\ a.sums = r.sums
      /\ a.outcome = FALSE
      /\ a.ended = [t |-> r.state.t, success |-> r.outcome]
      /\ IF r.episode = NoEpisode
         THEN a.exported = r.exported /\ a.success = r.success /\ a.exports = r.exports
         ELSE /\ a.exported = r.episode /\ a.success = (r.term = "success")
              /\ a.exports = r.exports + 1
  BY RecordPreResetFields
<1>5. /\ SameTimers(b, a)
      /\ b.state = a.state /\ b.outcome = a.outcome /\ b.reward = a.reward
      /\ b.sums = a.sums /\ b.exported = a.exported /\ b.success = a.success
      /\ b.exports = a.exports /\ b.ended = a.ended
      /\ b.report.state = a.state /\ b.report.length = a.length
  BY <1>3, CurriculumComputeFields
<1>6. /\ SameReports(c, b)
      /\ c.outcome = b.outcome /\ c.reward = b.reward /\ c.sums = b.sums
      /\ c.state = [ep |-> b.state.ep + 1, t |-> 0]
      /\ c.commands = <<>> /\ c.events = <<>>
      /\ c.triggeredAt = b.triggeredAt /\ c.triggered = b.triggered
      /\ c.triggers = b.triggers
  BY <1>3, SceneResetFields
<1>7. /\ SameReports(d, c)
      /\ d.state = c.state /\ d.outcome = c.outcome /\ d.reward = c.reward
      /\ d.sums = c.sums /\ d.commands = c.commands /\ d.events = c.events
      /\ d.triggeredAt = (IF Valid(c, n) THEN n ELSE c.triggeredAt)
      /\ d.triggered = (c.triggered \/ Valid(c, n))
      /\ d.triggers = Append(c.triggers, [at |-> n, applied |-> Valid(c, n)])
  BY <1>3, ApplyResetEventFields
<1>8. /\ SameTimers(p, d)
      /\ p.state = d.state /\ p.outcome = d.outcome /\ p.reward = d.reward
      /\ p.exported = d.exported /\ p.success = d.success
      /\ p.exports = d.exports /\ p.ended = d.ended
      /\ p.action = Zero /\ p.sums = {} /\ p.pushed = FALSE
      /\ p.report.state = d.report.state /\ p.report.length = d.report.length
      /\ p.report.sums = d.sums
  BY <1>3, MdpResetFields
<1>9. /\ SameReports(f, p)
      /\ f.state = p.state /\ f.action = p.action /\ f.outcome = p.outcome
      /\ f.reward = p.reward /\ f.sums = p.sums /\ f.pushed = p.pushed
      /\ f.events = p.events /\ f.triggeredAt = p.triggeredAt
      /\ f.triggered = p.triggered /\ f.triggers = p.triggers
      /\ f.command = 1 /\ f.commandLeft = x
      /\ f.commands = Append(p.commands, p.state.t)
  BY <1>2, <1>3, CommandResetFields
<1>10. q = RecordPostReset(RecorderReset(EventReset(f, y)))
  BY <1>1
<1> HIDE DEF a, b, c, d, p, f
<1>11. Begun(q, f, y)
  BY <1>2, <1>3, <1>10, NewEpisodeFields
<1>12. /\ Valid(c, n) = Valid(r, n) /\ c.triggeredAt = r.triggeredAt
       /\ c.triggered = r.triggered /\ c.triggers = r.triggers
  BY <1>4, <1>5, <1>6 DEF Valid, SameTimers
<1>13. /\ q.triggeredAt = d.triggeredAt /\ q.triggered = d.triggered
       /\ q.triggers = d.triggers
  BY <1>8, <1>9, <1>11 DEF Begun, SameTimers
<1>14. q.commands = <<0>>
  BY <1>6, <1>7, <1>8, <1>9, <1>11 DEF Begun, SameTimers
<1>15. q.events = <<>> /\ q.pushed = FALSE /\ q.command = 1
  BY <1>6, <1>7, <1>8, <1>9, <1>11 DEF Begun, SameTimers, SameView
<1>16. q.report = p.report /\ d.report = b.report /\ q.exported = a.exported
       /\ q.success = a.success /\ q.exports = a.exports /\ q.ended = a.ended
  BY <1>5, <1>6, <1>7, <1>8, <1>9, <1>11 DEF Begun, SameReports
<1>17. /\ q.triggeredAt = (IF Valid(r, n) THEN n ELSE r.triggeredAt)
       /\ q.triggered = (r.triggered \/ Valid(r, n))
       /\ q.triggers = Append(r.triggers, [at |-> n, applied |-> Valid(r, n)])
  BY <1>7, <1>12, <1>13
<1>18. /\ q.state = [ep |-> r.state.ep + 1, t |-> 0]
       /\ q.action = Zero /\ q.sums = {} /\ q.outcome = FALSE /\ q.reward = r.reward
       /\ q.commandLeft \in CommandRange /\ q.eventLeft \in IntervalRange
  BY <1>4, <1>5, <1>6, <1>7, <1>8, <1>9, <1>11 DEF Begun
<1>19. /\ q.report.state = r.state /\ q.report.length = r.length
       /\ q.report.sums = r.sums
  BY <1>4, <1>5, <1>6, <1>7, <1>8, <1>16
<1>20. q.episode.initial = <<q.state>>
  BY <1>11 DEF Begun
<1>21. QED
  BY <1>4, <1>11, <1>14, <1>15, <1>16, <1>17, <1>18, <1>19, <1>20
     DEF Begun, WasReset

-----------------------------------------------------------------------------
(* After the resets. *)

\* q is r but for its command and its interval event, or its history.
SameRest(q, r) ==
  /\ SameReports(q, r)
  /\ q.state = r.state /\ q.length = r.length /\ q.action = r.action
  /\ q.term = r.term /\ q.outcome = r.outcome /\ q.reward = r.reward
  /\ q.sums = r.sums /\ q.episode = r.episode
  /\ q.triggeredAt = r.triggeredAt /\ q.triggered = r.triggered
  /\ q.triggers = r.triggers

\* Row q is row r after CommandTerm.compute.
CommandComputed(q, r) ==
  /\ q \in RowType /\ SameRest(q, r)
  /\ q.history = r.history /\ q.pushed = r.pushed
  /\ q.eventLeft = r.eventLeft /\ q.events = r.events
  /\ \/ /\ r.commandLeft - 1 <= 0
        /\ q.command = r.command + 1 /\ q.commandLeft \in CommandRange
        /\ q.commands = Append(r.commands, r.state.t)
     \/ /\ r.commandLeft - 1 > 0
        /\ q.command = r.command /\ q.commandLeft = r.commandLeft - 1
        /\ q.commands = r.commands

\* What CommandTerm.compute changes, and what it leaves alone.
LEMMA CommandComputeFields ==
  ASSUME NEW r \in RowType, r.commandLeft > 0, NEW q \in CommandCompute(r)
  PROVE  CommandComputed(q, r)
<1> DEFINE a == [r EXCEPT !.commandLeft = @ - 1]
<1>1. r.commandLeft - 1 \in Nat /\ a = [r EXCEPT !.commandLeft = r.commandLeft - 1]
  BY RowFields
<1>2. a \in RowType
  BY <1>1 DEF RowType
<1>3. /\ SameRest(a, r) /\ SameView(a, r)
      /\ a.eventLeft = r.eventLeft /\ a.events = r.events
      /\ a.commandLeft = r.commandLeft - 1 /\ a.commands = r.commands
  BY DEF RowType, SameRest, SameReports, SameView
<1>4. IF a.commandLeft <= 0 THEN \E x \in CommandRange : q = Resample(a, x) ELSE q = a
  BY DEF CommandCompute
<1> HIDE DEF a
<1>5. CASE r.commandLeft - 1 <= 0
  <2>1. PICK x \in CommandRange : q = Resample(a, x)
    BY <1>3, <1>4, <1>5
  <2>2. x \in Nat
    BY RangeAssumption
  <2> DEFINE p == Resample(a, x)
  <2>3. /\ p \in RowType /\ SameReports(p, a)
        /\ p.state = a.state /\ p.length = a.length /\ p.action = a.action
        /\ p.term = a.term /\ p.outcome = a.outcome /\ p.reward = a.reward
        /\ p.sums = a.sums /\ p.episode = a.episode
        /\ p.history = a.history /\ p.pushed = a.pushed
        /\ p.eventLeft = a.eventLeft /\ p.events = a.events
        /\ p.triggeredAt = a.triggeredAt /\ p.triggered = a.triggered
        /\ p.triggers = a.triggers
        /\ p.command = a.command + 1 /\ p.commandLeft = x
        /\ p.commands = Append(a.commands, a.state.t)
    BY <1>2, <2>2, ResampleFields
  <2> HIDE DEF p
  <2>4. CommandComputed(p, r)
    BY <1>3, <1>5, <2>3 DEF CommandComputed, SameRest, SameReports, SameView
  <2>5. QED
    BY <2>1, <2>4 DEF p
<1>6. CASE r.commandLeft - 1 > 0
  <2>1. q = a
    BY <1>1, <1>3, <1>4, <1>6
  <2>2. QED
    BY <1>2, <1>3, <1>6, <2>1 DEF CommandComputed, SameView
<1>7. QED
  BY <1>1, <1>5, <1>6

\* Row q is row r after an interval event.
IntervalApplied(q, r) ==
  /\ q \in RowType /\ SameRest(q, r) /\ SameView(q, r)
  /\ q.commandLeft = r.commandLeft /\ q.commands = r.commands
  /\ \/ /\ r.eventLeft - 1 <= 0 /\ q.eventLeft \in IntervalRange
        /\ q.events = Append(r.events, r.state.t)
     \/ /\ r.eventLeft - 1 > 0 /\ q.eventLeft = r.eventLeft - 1
        /\ q.events = r.events

\* What an interval event changes, and what it leaves alone.
LEMMA ApplyIntervalEventFields ==
  ASSUME NEW r \in RowType, r.eventLeft > 0, NEW q \in ApplyIntervalEvent(r)
  PROVE  IntervalApplied(q, r)
<1> DEFINE a == [r EXCEPT !.eventLeft = @ - 1]
<1>1. r.eventLeft - 1 \in Nat /\ a = [r EXCEPT !.eventLeft = r.eventLeft - 1]
  BY RowFields
<1>2. a \in RowType
  BY <1>1 DEF RowType
<1>3. /\ SameRest(a, r) /\ SameView(a, r)
      /\ a.commandLeft = r.commandLeft /\ a.commands = r.commands
      /\ a.eventLeft = r.eventLeft - 1 /\ a.events = r.events
  BY DEF RowType, SameRest, SameReports, SameView
<1>4. IF a.eventLeft <= 0
      THEN \E y \in IntervalRange :
             q = [a EXCEPT !.eventLeft = y, !.events = Append(@, r.state.t)]
      ELSE q = a
  BY DEF ApplyIntervalEvent
<1> HIDE DEF a
<1>5. CASE r.eventLeft - 1 <= 0
  <2>1. PICK y \in IntervalRange :
          q = [a EXCEPT !.eventLeft = y, !.events = Append(a.events, r.state.t)]
    BY <1>3, <1>4, <1>5
  <2>2. y \in Nat /\ Append(a.events, r.state.t) \in Seq(Nat)
    BY <1>2, RowFields, StampFields, RangeAssumption
  <2>3. q \in RowType
    BY <1>2, <2>1, <2>2 DEF RowType
  <2>4. /\ SameRest(q, a) /\ SameView(q, a)
        /\ q.commandLeft = a.commandLeft /\ q.commands = a.commands
        /\ q.eventLeft = y /\ q.events = Append(a.events, r.state.t)
    BY <1>2, <2>1 DEF RowType, SameRest, SameReports, SameView
  <2>5. QED
    BY <1>3, <1>5, <2>3, <2>4 DEF IntervalApplied, SameRest, SameReports, SameView
<1>6. CASE r.eventLeft - 1 > 0
  <2>1. ~(a.eventLeft <= 0)
    BY <1>1, <1>3, <1>6
  <2>2. q = a
    BY ONLY <1>4, <2>1
  <2>3. QED
    BY <1>2, <1>3, <1>6, <2>2 DEF IntervalApplied
<1>7. QED
  BY <1>1, <1>5, <1>6

\* A frame is what the terms read.
LEMMA FrameFields ==
  ASSUME NEW r \in RowType
  PROVE  /\ Frame(r) \in FrameType
         /\ Frame(r).state = r.state /\ Frame(r).command = r.command
         /\ Frame(r).action = r.action /\ Frame(r).length = r.length
BY RowFields DEF Frame, FrameType

\* What the observation changes, and what it leaves alone.
LEMMA ObservationComputeFields ==
  ASSUME NEW r \in RowType
  PROVE  LET q == ObservationCompute(r) IN
         /\ q \in RowType /\ SameRest(q, r)
         /\ q.command = r.command
         /\ q.commandLeft = r.commandLeft /\ q.commands = r.commands
         /\ q.eventLeft = r.eventLeft /\ q.events = r.events
         /\ q.pushed = TRUE
         /\ q.history = [i \in Frames |->
                           IF i = 1 THEN Frame(r)
                           ELSE IF r.pushed THEN r.history[i - 1] ELSE Frame(r)]
<1> DEFINE h == [i \in Frames |-> IF i = 1 THEN Frame(r)
                           ELSE IF r.pushed THEN r.history[i - 1] ELSE Frame(r)]
<1>1. /\ h \in [Frames -> FrameType] /\ TRUE \in BOOLEAN
      /\ ObservationCompute(r) = [r EXCEPT !.history = h, !.pushed = TRUE]
  <2>1. \A i \in Frames : i # 1 => i - 1 \in Frames
    BY HistoryAssumption DEF Frames
  <2>2. r.history \in [Frames -> FrameType] /\ Frame(r) \in FrameType
    BY RowFields, FrameFields
  <2>3. h \in [Frames -> FrameType]
    BY <2>1, <2>2
  <2>4. h = [i \in Frames |-> IF i = 1 THEN Frame(r)
                              ELSE (IF r.pushed THEN r.history
                                    ELSE [j \in Frames |-> Frame(r)])[i - 1]]
    BY <2>1
  <2>5. QED
    BY <2>3, <2>4 DEF ObservationCompute
<1> HIDE DEF h
<1>2. [r EXCEPT !.history = h, !.pushed = TRUE] \in RowType
  BY <1>1 DEF RowType
<1> DEFINE q == [r EXCEPT !.history = h, !.pushed = TRUE]
<1>3. /\ SameRest(q, r) /\ q.command = r.command
      /\ q.commandLeft = r.commandLeft /\ q.commands = r.commands
      /\ q.eventLeft = r.eventLeft /\ q.events = r.events
      /\ q.pushed = TRUE /\ q.history = h
  BY DEF RowType, SameRest, SameReports
<1> HIDE DEF q
<1>4. QED
  BY <1>1, <1>2, <1>3 DEF q, h

-----------------------------------------------------------------------------
(* The invariant of a row. *)

\* The frames of the history are of this episode, and none is missing.
Unbroken(r) ==
  /\ r.state.t - r.history[1].length \in {0, 1}
  /\ \A i \in Frames : LET h == r.history IN
       /\ h[i].state.ep = r.state.ep /\ h[i].length = h[i].state.t
       /\ h[i].action = IF h[i].length = 0 THEN Zero ELSE h[i].state
       /\ i > 1 => h[i - 1].length - h[i].length \in {0, 1}

\* The accounts of the present episode and of the exported one, which a reset
\* relies on; before the first reset there is no episode.
Accounts(r) ==
  /\ r \in RowType /\ r.commandLeft > 0 /\ r.eventLeft > 0
  /\ r.length = r.state.t
  /\ r.sums = {[ep |-> r.state.ep, t |-> i] : i \in 1 .. r.state.t}
  /\ r.state.t > 0 => r.reward = r.state /\ r.outcome = (r.term = "success")
  /\ IF r.state.ep = 0 THEN r.episode = NoEpisode /\ r.exports = 0
                       ELSE /\ Recorded(r.episode, r.state.ep, r.state.t)
                            /\ r.exports = r.state.ep - 1
  /\ r.exports > 0 => Recorded(r.exported, r.exports, r.ended.t)
  /\ r.exports > 0 /\ r.ended.t > 0 => r.success = r.ended.success

\* The report of the episode that ended last.
Reported(r) ==
  LET last == [ep |-> r.state.ep - 1, t |-> r.ended.t]
  IN  /\ r.report.state = last /\ r.report.length = last.t
      /\ r.report.sums = {[ep |-> last.ep, t |-> i] : i \in 1 .. last.t}
      /\ r.state.t = 0 /\ last.t > 0 => r.reward = last

\* A row of an episode, between any two calls inside step() and reset().
Running(r) ==
  /\ Accounts(r) /\ Reported(r)
  /\ r.state.ep > 0 /\ r.command > 0
  /\ r.action = IF r.state.t = 0 THEN Zero ELSE r.state
  /\ r.pushed => Unbroken(r)

\* ... and after them.
AtRest(r) == Running(r) /\ r.pushed /\ r.history[1] = Frame(r)

\* One more step is recorded.
LEMMA RecordedStep ==
  ASSUME NEW m \in EpisodeType, NEW k \in EpisodeType, NEW ep \in Nat, NEW t \in Nat,
         NEW f \in FrameType, f.state = [ep |-> ep, t |-> t], Recorded(m, ep, t),
         k.initial = m.initial, k.obs = Append(m.obs, f),
         k.actions = Append(m.actions, [ep |-> ep, t |-> t + 1]),
         k.states = Append(m.states, [ep |-> ep, t |-> t + 1])
  PROVE  Recorded(k, ep, t + 1)
<1> DEFINE now == [ep |-> ep, t |-> t + 1]
<1>1. /\ m.obs \in Seq(FrameType) /\ m.actions \in Seq(Stamp) /\ m.states \in Seq(Stamp)
      /\ now \in Stamp
  BY DEF EpisodeType, Stamp
<1>2. Len(m.obs) = t /\ Len(m.actions) = t /\ Len(m.states) = t
  BY DEF Recorded
<1>3. Len(k.obs) = t + 1 /\ Len(k.actions) = t + 1 /\ Len(k.states) = t + 1
  BY <1>1, <1>2
<1>4. ASSUME NEW i \in 1 .. t + 1
      PROVE  /\ k.obs[i].state = [ep |-> ep, t |-> i - 1]
             /\ k.actions[i] = [ep |-> ep, t |-> i] /\ k.states[i] = [ep |-> ep, t |-> i]
  <2>1. CASE i = t + 1
    <3>1. k.obs[i] = f /\ k.actions[i] = now /\ k.states[i] = now
      BY <1>1, <1>2, <2>1, AppendProperties
    <3>2. f.state = [ep |-> ep, t |-> i - 1] /\ now = [ep |-> ep, t |-> i]
      BY <2>1
    <3>3. QED
      BY <3>1, <3>2
  <2>2. CASE i \in 1 .. t
    <3>1. k.obs[i] = m.obs[i] /\ k.actions[i] = m.actions[i] /\ k.states[i] = m.states[i]
      BY <1>1, <1>2, <2>2
    <3>2. /\ m.obs[i].state = [ep |-> ep, t |-> i - 1]
          /\ m.actions[i] = [ep |-> ep, t |-> i] /\ m.states[i] = [ep |-> ep, t |-> i]
      BY <2>2 DEF Recorded
    <3>3. QED
      BY <3>1, <3>2
  <2>3. i = t + 1 \/ i \in 1 .. t
    OBVIOUS
  <2>4. QED
    BY <2>1, <2>2, <2>3
<1>5. k.initial = <<[ep |-> ep, t |-> 0]>>
  BY DEF Recorded
<1>6. \A s \in {k.obs, k.actions, k.states} : Len(s) = t + 1
  BY <1>3
<1>7. \A i \in 1 .. t + 1 :
        /\ k.obs[i].state = [ep |-> ep, t |-> i - 1]
        /\ k.actions[i] = [ep |-> ep, t |-> i] /\ k.states[i] = [ep |-> ep, t |-> i]
  BY <1>4
<1>8. QED
  BY <1>5, <1>6, <1>7 DEF Recorded

\* A step is accounted for.
LEMMA SteppedKeeps ==
  ASSUME NEW r, AtRest(r), NEW d \in {"no", "success", "fail"}
  PROVE  Running(Stepped(r, d))
<1> DEFINE q == Stepped(r, d)
           now == [ep |-> r.state.ep, t |-> r.state.t + 1]
<1>1. /\ r \in RowType /\ r.state.ep \in Nat \ {0} /\ r.state.t \in Nat
      /\ r.state = [ep |-> r.state.ep, t |-> r.state.t] /\ r.ended.t \in Nat
      /\ r.episode \in EpisodeType /\ r.history[1] \in FrameType
  <2>1. r \in RowType /\ r.state.ep > 0
    BY DEF AtRest, Running, Accounts
  <2>2. 1 \in Frames
    BY HistoryAssumption DEF Frames
  <2>3. /\ r.state \in Stamp /\ r.ended \in [t : Nat, success : BOOLEAN]
        /\ r.episode \in EpisodeType /\ r.history \in [Frames -> FrameType]
    BY <2>1, RowFields
  <2>4. r.history[1] \in FrameType /\ r.ended.t \in Nat
    BY <2>2, <2>3
  <2>5. /\ r.state.ep \in Nat /\ r.state.t \in Nat
        /\ r.state = [ep |-> r.state.ep, t |-> r.state.t]
    BY <2>3, StampFields
  <2>6. QED
    BY <2>1, <2>3, <2>4, <2>5
<1>2. /\ q \in RowType
      /\ SameTimers(q, r) /\ SameReports(q, r) /\ SameView(q, r)
      /\ q.state = now /\ q.length = r.length + 1 /\ q.action = now
      /\ q.term = d /\ q.outcome = (d = "success")
      /\ q.reward = now /\ q.sums = r.sums \cup {now}
      /\ q.episode.initial = r.episode.initial
      /\ q.episode.obs = Append(r.episode.obs, r.history[1])
      /\ q.episode.actions = Append(r.episode.actions, now)
      /\ q.episode.states = Append(r.episode.states, now)
  BY <1>1, SteppedFields
<1> HIDE DEF q
<1>3. r.history[1].state = r.state /\ r.history[1].length = r.state.t
  BY <1>1, FrameFields DEF AtRest, Running, Accounts
<1>4. q.state.ep = r.state.ep /\ q.state.t = r.state.t + 1 /\ q.episode \in EpisodeType
  BY <1>2, RowFields
<1>5. Recorded(q.episode, q.state.ep, q.state.t)
  <2>1. Recorded(r.episode, r.state.ep, r.state.t)
    BY <1>1 DEF AtRest, Running, Accounts
  <2>2. r.history[1].state = [ep |-> r.state.ep, t |-> r.state.t]
    BY <1>1, <1>3
  <2>3. Recorded(q.episode, r.state.ep, r.state.t + 1)
    BY <1>1, <1>2, <1>4, <2>1, <2>2, RecordedStep
  <2>4. QED
    BY <1>4, <2>3
<1>6. q.sums = {[ep |-> q.state.ep, t |-> i] : i \in 1 .. q.state.t}
  <2>1. r.sums = {[ep |-> r.state.ep, t |-> i] : i \in 1 .. r.state.t}
    BY DEF AtRest, Running, Accounts
  <2>2. 1 .. r.state.t + 1 = (1 .. r.state.t) \cup {r.state.t + 1}
    BY <1>1
  <2>3. QED
    BY <1>1, <1>2, <1>4, <2>1, <2>2
<1>7. Accounts(q)
  BY <1>1, <1>2, <1>4, <1>5, <1>6
     DEF AtRest, Running, Accounts, SameTimers, SameReports
<1>8. Reported(q)
  BY <1>1, <1>2, <1>4 DEF AtRest, Running, Reported, SameReports
<1>9. Unbroken(q)
  BY <1>1, <1>2, <1>3, <1>4 DEF AtRest, Running, Unbroken, SameView
<1>10. QED
  BY <1>1, <1>2, <1>4, <1>7, <1>8, <1>9 DEF AtRest, Running, SameView, q

\* An episode with an initial state is not empty.
LEMMA NonEmpty ==
  ASSUME NEW m, Len(m.initial) = 1
  PROVE  m # NoEpisode
<1>1. Len(NoEpisode.initial) = 0
  BY DEF NoEpisode
<1>2. m = NoEpisode => m.initial = NoEpisode.initial
  OBVIOUS
<1>3. QED
  BY <1>1, <1>2

\* A reset reports and exports the episode it ends and begins the next one.
LEMMA ResetKeeps ==
  ASSUME NEW r, Accounts(r), NEW n \in Nat, NEW q \in ResetIdx(r, n)
  PROVE  Running(q) /\ ~q.pushed
<1>1. /\ r \in RowType /\ r.state.ep \in Nat /\ r.state.t \in Nat
      /\ r.state = [ep |-> r.state.ep, t |-> r.state.t]
      /\ r.episode \in EpisodeType
  BY RowFields, StampFields DEF Accounts
<1>2. /\ q \in RowType
      /\ q.state = [ep |-> r.state.ep + 1, t |-> 0]
      /\ q.length = 0 /\ q.action = Zero /\ q.sums = {} /\ q.pushed = FALSE
      /\ q.command = 1 /\ q.commandLeft \in CommandRange
      /\ q.eventLeft \in IntervalRange
      /\ q.episode.initial = <<q.state>> /\ q.episode.obs = <<>>
      /\ q.episode.actions = <<>> /\ q.episode.states = <<>>
      /\ q.reward = r.reward
      /\ q.report.state = r.state /\ q.report.length = r.length
      /\ q.report.sums = r.sums
      /\ q.ended = [t |-> r.state.t, success |-> r.outcome]
      /\ IF r.episode = NoEpisode
         THEN q.exported = r.exported /\ q.success = r.success /\ q.exports = r.exports
         ELSE /\ q.exported = r.episode /\ q.success = (r.term = "success")
              /\ q.exports = r.exports + 1
  <2>1. WasReset(q, r, n)
    BY <1>1, ResetFields
  <2>2. QED
    BY ONLY <2>1 DEF WasReset
<1>3. q.commandLeft > 0 /\ q.eventLeft > 0
  BY <1>2, RangeAssumption
<1>4. /\ q.state.ep = r.state.ep + 1 /\ q.state.t = 0 /\ q.ended.t = r.state.t
      /\ q.ended.success = r.outcome
  BY <1>2
<1>5. Recorded(q.episode, q.state.ep, q.state.t)
  BY <1>1, <1>2, <1>4 DEF Recorded
<1>6. /\ q.exports = q.state.ep - 1
      /\ q.exports > 0 => Recorded(q.exported, q.exports, q.ended.t)
      /\ q.exports > 0 /\ q.ended.t > 0 => q.success = q.ended.success
  <2>1. CASE r.state.ep = 0
    BY <1>1, <1>2, <1>4, <2>1 DEF Accounts
  <2>2. CASE r.state.ep # 0
    <3>1. Recorded(r.episode, r.state.ep, r.state.t)
      BY <2>2 DEF Accounts
    <3>2. r.episode # NoEpisode
      <4>1. r.episode.initial = <<[ep |-> r.state.ep, t |-> 0]>>
        BY <3>1 DEF Recorded
      <4>2. Len(r.episode.initial) = 1
        BY <4>1
      <4>3. QED
        BY <4>2, NonEmpty
    <3>3. QED
      BY <1>1, <1>2, <1>4, <2>2, <3>1, <3>2 DEF Accounts
  <2>3. QED
    BY <2>1, <2>2
<1>7. Accounts(q)
  BY <1>1, <1>2, <1>3, <1>4, <1>5, <1>6 DEF Accounts
<1>8. Reported(q)
  BY <1>1, <1>2, <1>4 DEF Accounts, Reported
<1>9. QED
  BY <1>1, <1>2, <1>4, <1>7, <1>8 DEF Running

\* Commands and interval events leave the accounts alone.
LEMMA RestKeeps ==
  ASSUME NEW r, Running(r), NEW q \in RowType, SameRest(q, r),
         q.history = r.history, q.pushed = r.pushed, q.command > 0,
         q.commandLeft > 0, q.eventLeft > 0
  PROVE  Running(q)
<1>1. Accounts(q)
  BY DEF Running, Accounts, SameRest, SameReports
<1>2. Reported(q)
  BY DEF Running, Reported, SameRest, SameReports
<1>3. q.pushed => Unbroken(q)
  BY DEF Running, Unbroken, SameRest
<1>4. QED
  BY <1>1, <1>2, <1>3 DEF Running, SameRest

\* ... as CommandTerm.compute
LEMMA CommandComputeKeeps ==
  ASSUME NEW r, Running(r), NEW q \in CommandCompute(r)
  PROVE  Running(q)
<1>1. /\ r \in RowType /\ r.commandLeft > 0 /\ r.eventLeft > 0 /\ r.command > 0
      /\ r.command \in Nat /\ r.commandLeft \in Nat
  BY RowFields DEF Running, Accounts
<1>2. CommandComputed(q, r)
  BY <1>1, CommandComputeFields
<1>3. q.command > 0 /\ q.commandLeft > 0
  BY <1>1, <1>2, RangeAssumption DEF CommandComputed
<1>4. QED
  BY <1>1, <1>2, <1>3, RestKeeps DEF CommandComputed

\* ... and EventManager.apply do.
LEMMA ApplyIntervalEventKeeps ==
  ASSUME NEW r, Running(r), NEW q \in ApplyIntervalEvent(r)
  PROVE  Running(q)
<1>1. /\ r \in RowType /\ r.commandLeft > 0 /\ r.eventLeft > 0 /\ r.command > 0
      /\ r.eventLeft \in Nat
  BY RowFields DEF Running, Accounts
<1>2. IntervalApplied(q, r)
  BY <1>1, ApplyIntervalEventFields
<1>3. q.eventLeft > 0
  BY <1>1, <1>2, RangeAssumption DEF IntervalApplied
<1>4. QED
  BY <1>1, <1>2, <1>3, RestKeeps DEF IntervalApplied, SameView

\* The observation of a row completes its history.
LEMMA ObservationComputeRests ==
  ASSUME NEW r, Running(r)
  PROVE  AtRest(ObservationCompute(r))
<1> DEFINE q == ObservationCompute(r)
<1>1. /\ r \in RowType /\ r.state.ep \in Nat /\ r.state.t \in Nat
      /\ r.length = r.state.t /\ 1 \in Frames
      /\ \A i \in Frames : i # 1 => i - 1 \in Frames
  BY RowFields, StampFields, HistoryAssumption DEF Running, Accounts, Frames
<1>2. /\ q \in RowType /\ SameRest(q, r)
      /\ q.command = r.command
      /\ q.commandLeft = r.commandLeft
      /\ q.eventLeft = r.eventLeft
      /\ q.pushed = TRUE
      /\ q.history = [i \in Frames |->
                        IF i = 1 THEN Frame(r)
                        ELSE IF r.pushed THEN r.history[i - 1] ELSE Frame(r)]
  BY <1>1, ObservationComputeFields
<1> HIDE DEF q
<1>3. Frame(q) = Frame(r) /\ q.history[1] = Frame(r)
  BY <1>1, <1>2 DEF Frame, SameRest
<1>4. /\ Frame(r).state = r.state /\ Frame(r).length = r.state.t
      /\ Frame(r).action = IF r.state.t = 0 THEN Zero ELSE r.state
  BY <1>1, FrameFields DEF Running
<1>5. Unbroken(q)
  <2>1. q.state = r.state /\ q.state.t - q.history[1].length = 0
    BY <1>1, <1>2, <1>3, <1>4 DEF SameRest
  <2>2. ASSUME NEW i \in Frames
        PROVE  /\ q.history[i].state.ep = r.state.ep
               /\ q.history[i].length = q.history[i].state.t
               /\ q.history[i].action = IF q.history[i].length = 0 THEN Zero
                                        ELSE q.history[i].state
               /\ i > 1 => q.history[i - 1].length - q.history[i].length \in {0, 1}
    <3>1. CASE i = 1 \/ ~r.pushed
      <4>1. q.history[i] = Frame(r) /\ (i > 1 => q.history[i - 1] = Frame(r))
        BY <1>1, <1>2, <3>1 DEF Frames
      <4>2. QED
        BY <1>1, <1>4, <4>1
    <3>2. CASE i # 1 /\ r.pushed
      <4>1. /\ q.history[i] = r.history[i - 1] /\ i - 1 \in Frames
            /\ q.history[i - 1] = IF i - 1 = 1 THEN Frame(r) ELSE r.history[i - 1 - 1]
        BY <1>1, <1>2, <3>2
      <4>2. Unbroken(r)
        BY <3>2 DEF Running
      <4>3. CASE i - 1 = 1
        BY <1>1, <1>4, <4>1, <4>2, <4>3 DEF Unbroken
      <4>4. CASE i - 1 # 1
        <5>1. i - 1 > 1
          BY <4>1, <4>4 DEF Frames
        <5>2. QED
          BY <4>1, <4>2, <4>4, <5>1 DEF Unbroken
      <4>5. QED
        BY <4>3, <4>4
    <3>3. QED
      BY <3>1, <3>2
  <2>3. QED
    BY <2>1, <2>2 DEF Unbroken
<1>6. Accounts(q)
  BY <1>2 DEF Running, Accounts, SameRest, SameReports
<1>7. Reported(q)
  BY <1>2 DEF Running, Reported, SameRest, SameReports
<1>8. QED
  BY <1>2, <1>3, <1>5, <1>6, <1>7 DEF AtRest, Running, SameRest, q

-----------------------------------------------------------------------------
(* The inductive invariant. *)

\* No row is stepped before the first reset, which resets all of them.
IInv ==
  /\ steps \in 0 .. MaxSteps /\ resets \in 0 .. MaxResets
  /\ globalLeft \in Nat \ {0} /\ globalAt \in 0 .. steps
  /\ row \in [Envs -> RowType]
  /\ \A e \in Envs : IF resets = 0 THEN Accounts(row[e]) /\ row[e].state.ep = 0
                                   ELSE AtRest(row[e])

\* It holds before the first reset,
LEMMA InitIInv == Init => IInv
<1> SUFFICES ASSUME Init PROVE IInv
  OBVIOUS
<1>1. ASSUME NEW x \in CommandRange, NEW y \in IntervalRange
      PROVE  Accounts(NewRow(x, y)) /\ NewRow(x, y).state.ep = 0
  <2> DEFINE r == NewRow(x, y)
  <2>1. x \in Nat \ {0} /\ y \in Nat \ {0}
    BY RangeAssumption
  <2>2. /\ Zero \in Stamp /\ NoEpisode \in EpisodeType
        /\ [i \in Frames |-> ZeroFrame] \in [Frames -> FrameType]
    BY NoEpisodeType DEF Zero, Stamp, ZeroFrame, FrameType
  <2>3. /\ r.state = Zero /\ r.length = 0 /\ r.sums = {} /\ r.episode = NoEpisode
        /\ r.exports = 0 /\ r.commandLeft = x /\ r.eventLeft = y
    BY DEF NewRow
  <2>4. r \in RowType
    BY <2>1, <2>2 DEF NewRow, RowType
  <2> HIDE DEF r
  <2>5. r.state.ep = 0 /\ r.state.t = 0
    BY <2>3 DEF Zero
  <2>6. r.sums = {[ep |-> r.state.ep, t |-> i] : i \in 1 .. r.state.t}
    BY <2>3, <2>5
  <2>7. Accounts(r)
    BY <2>1, <2>3, <2>4, <2>5, <2>6 DEF Accounts
  <2>8. QED
    BY <2>5, <2>7 DEF r
<1>2. \A e \in Envs : Accounts(row[e]) /\ row[e].state.ep = 0
  BY <1>1 DEF Init
<1>3. row \in [Envs -> RowType]
  BY <1>2 DEF Init, Accounts
<1>4. globalLeft \in Nat \ {0} /\ MaxSteps \in Nat /\ MaxResets \in Nat
  BY RangeAssumption, CountAssumption DEF Init
<1>5. QED
  BY <1>2, <1>3, <1>4 DEF Init, IInv

\* A row after a step.
LEMMA StepRowsRest ==
  ASSUME NEW r, AtRest(r), steps \in Nat, NEW d \in {"no", "success", "fail"},
         NEW q \in StepRows(r, d)
  PROVE  AtRest(q)
<1> DEFINE played == Stepped(r, d)
           reset  == IF d = "no" THEN {played} ELSE ResetIdx(played, steps + 1)
<1>1. Running(played)
  BY SteppedKeeps
<1>2. PICK p \in reset : \E c \in CommandCompute(p) : \E m \in ApplyIntervalEvent(c) :
        q = ObservationCompute(m)
  BY DEF StepRows
<1> HIDE DEF played
<1>3. Running(p)
  <2>1. CASE d = "no"
    BY <1>1, <1>2, <2>1
  <2>2. CASE d # "no"
    <3>1. p \in ResetIdx(played, steps + 1)
      BY <1>2, <2>2
    <3>2. steps + 1 \in Nat /\ Accounts(played)
      BY <1>1 DEF Running
    <3>3. QED
      BY <3>1, <3>2, ResetKeeps
  <2>3. QED
    BY <2>1, <2>2
<1>4. PICK c \in CommandCompute(p) : \E m \in ApplyIntervalEvent(c) :
        q = ObservationCompute(m)
  BY <1>2
<1>5. PICK m \in ApplyIntervalEvent(c) : q = ObservationCompute(m)
  BY <1>4
<1>6. Running(c)
  BY <1>3, CommandComputeKeeps
<1>7. Running(m)
  BY <1>6, ApplyIntervalEventKeeps
<1>8. QED
  BY <1>5, <1>7, ObservationComputeRests

\* Every row rests after a step, as no row is stepped before the first reset.
LEMMA StepIInv ==
  ASSUME IInv, NEW done \in [Envs -> {"no", "success", "fail"}], Step(done)
  PROVE  IInv'
<1>1. /\ steps \in Nat /\ steps < MaxSteps /\ steps' = steps + 1 /\ MaxSteps \in Nat
      /\ resets' = resets /\ resets \in 0 .. MaxResets
  BY CountAssumption DEF IInv, Step
<1>2. /\ DOMAIN row' = Envs /\ row' = [e \in Envs |-> row'[e]]
      /\ \A e \in Envs : row'[e] \in StepRows(row[e], done[e])
  BY DEF Step, EachOf
<1>3. \A e \in Envs : row[e].state.ep > 0
  BY DEF Step
<1>4. CASE resets = 0 /\ Envs # {}
  BY <1>3, <1>4 DEF IInv
<1>5. CASE resets # 0 \/ Envs = {}
  <2>1. ASSUME NEW e \in Envs
        PROVE  AtRest(row'[e]) /\ row'[e] \in RowType /\ resets' # 0
    <3>1. AtRest(row[e]) /\ done[e] \in {"no", "success", "fail"}
      BY <1>5 DEF IInv
    <3>2. row'[e] \in StepRows(row[e], done[e])
      BY <1>2
    <3>3. AtRest(row'[e])
      BY <1>1, <3>1, <3>2, StepRowsRest
    <3>4. QED
      BY <1>1, <1>5, <3>3 DEF AtRest, Running, Accounts
  <2>2. row' \in [Envs -> RowType]
    BY <1>2, <2>1
  <2>3. /\ steps' \in 0 .. MaxSteps /\ resets' \in 0 .. MaxResets
    BY <1>1
  <2>4. globalLeft' \in Nat \ {0} /\ globalAt' \in 0 .. steps'
    BY <1>1, RangeAssumption DEF IInv, Step
  <2>5. QED
    BY <2>1, <2>2, <2>3, <2>4 DEF IInv
<1>6. QED
  BY <1>4, <1>5

\* The first reset resets every row; later ones leave rows at rest.
LEMMA ResetIInv ==
  ASSUME IInv, NEW E \in SUBSET Envs, resets = 0 => E = Envs, Reset(E)
  PROVE  IInv'
<1>1. /\ steps \in Nat /\ resets \in Nat /\ resets' = resets + 1 /\ resets < MaxResets
      /\ MaxResets \in Nat /\ UNCHANGED <<steps, globalLeft, globalAt>>
  <2>1. /\ steps \in 0 .. MaxSteps /\ resets \in 0 .. MaxResets
        /\ MaxSteps \in Nat /\ MaxResets \in Nat
    BY CountAssumption DEF IInv
  <2>2. /\ resets' = resets + 1 /\ resets < MaxResets
        /\ UNCHANGED <<steps, globalLeft, globalAt>>
    BY DEF Reset
  <2>3. QED
    BY <2>1, <2>2
<1>2. /\ DOMAIN row' = Envs /\ row' = [e \in Envs |-> row'[e]]
      /\ \A e \in Envs : \E q \in IF e \in E THEN ResetIdx(row[e], steps) ELSE {row[e]} :
           row'[e] = ObservationCompute(q)
  BY DEF Reset, EachOf
<1>3. ASSUME NEW e \in Envs
      PROVE  AtRest(row'[e]) /\ row'[e] \in RowType
  <2>1. PICK q \in IF e \in E THEN ResetIdx(row[e], steps) ELSE {row[e]} :
          row'[e] = ObservationCompute(q)
    BY <1>2
  <2>2. Running(q)
    <3>1. CASE e \in E
      <4>1. Accounts(row[e])
        BY DEF IInv, AtRest, Running
      <4>2. QED
        BY <1>1, <2>1, <3>1, <4>1, ResetKeeps
    <3>2. CASE e \notin E
      <4>1. resets # 0
        BY <3>2
      <4>2. AtRest(row[e])
        BY <4>1 DEF IInv
      <4>3. QED
        BY <2>1, <3>2, <4>2 DEF AtRest
    <3>3. QED
      BY <3>1, <3>2
  <2>3. AtRest(row'[e])
    BY <2>1, <2>2, ObservationComputeRests
  <2>4. QED
    BY <2>3 DEF AtRest, Running, Accounts
<1>4. row' \in [Envs -> RowType]
  BY <1>2, <1>3
<1>5. resets' \in 0 .. MaxResets /\ resets' # 0
  BY <1>1
<1>6. steps' \in 0 .. MaxSteps /\ globalLeft' \in Nat \ {0} /\ globalAt' \in 0 .. steps'
  BY <1>1 DEF IInv
<1>7. QED
  BY <1>3, <1>4, <1>5, <1>6 DEF IInv

\* Every step keeps the invariant,
LEMMA NextIInv == IInv /\ [Next]_vars => IInv'
<1> SUFFICES ASSUME IInv, [Next]_vars PROVE IInv'
  OBVIOUS
<1>1. CASE \E done \in [Envs -> {"no", "success", "fail"}] : Step(done)
  BY <1>1, StepIInv
<1>2. CASE \E E \in SUBSET Envs \ {{}} : (resets = 0 => E = Envs) /\ Reset(E)
  BY <1>2, ResetIInv
<1>3. CASE UNCHANGED vars
  BY <1>3 DEF IInv, vars
<1>4. QED
  BY <1>1, <1>2, <1>3 DEF Next

\* ... which therefore always holds.
LEMMA Invariant == Spec => []IInv
<1>1. QED
  BY InitIInv, NextIInv, PTL DEF Spec

\* The types, and that no interval is ever left at or below zero: the managers
\* resample in the call in which an interval ends.
THEOREM TypeCorrect == Spec => []TypeOK
<1>1. IInv => TypeOK
  BY DEF IInv, TypeOK, AtRest, Running, Accounts
<1>2. QED
  BY <1>1, Invariant, PTL

\* ObservationManager.compute runs last in step() and reset(): the policy is
\* shown frames of the present episode only, and none is missing.
THEOREM ObservationsFresh == Spec => []ObservationsOfNewEpisode
<1>1. IInv => ObservationsOfNewEpisode
  <2> SUFFICES ASSUME IInv, NEW e \in Envs, row[e].state.ep > 0
               PROVE  /\ row[e].history[1] = Frame(row[e]) /\ row[e].command > 0
                      /\ Unbroken(row[e])
    BY DEF ObservationsOfNewEpisode, Unbroken
  <2>1. AtRest(row[e])
    BY DEF IInv
  <2>2. QED
    BY <2>1 DEF AtRest, Running
<1>2. QED
  BY <1>1, Invariant, PTL

\* _reset_idx reads the ended episode before it starts the next: the reports of
\* curriculum and rewards are of all of that episode and of nothing else.
THEOREM ReportComplete == Spec => []EndedEpisodeReported
<1>1. IInv => EndedEpisodeReported
  <2> SUFFICES ASSUME IInv, NEW e \in Envs, row[e].state.ep > 0
               PROVE  Accounts(row[e]) /\ Reported(row[e])
    BY DEF EndedEpisodeReported, Accounts, Reported
  <2>1. AtRest(row[e])
    BY DEF IInv
  <2>2. QED
    BY <2>1 DEF AtRest, Running
<1>2. QED
  BY <1>1, Invariant, PTL

\* The recorder is called at the same four places of every step and reset: what
\* it records and exports is aligned and complete, however many steps there are.
THEOREM RecordingComplete == Spec => []RecordingAligned
<1>1. IInv => RecordingAligned
  <2> SUFFICES ASSUME IInv PROVE RecordingAligned
    OBVIOUS
  <2>1. \A e \in Envs : Accounts(row[e])
    BY DEF IInv, AtRest, Running
  <2>2. ASSUME NEW r, Accounts(r)
        PROVE  /\ IF r.state.ep = 0 THEN r.episode = NoEpisode
                                    ELSE Recorded(r.episode, r.state.ep, r.state.t)
               /\ r.state.ep > 0 => r.exports = r.state.ep - 1
               /\ r.exports > 0 => Recorded(r.exported, r.exports, r.ended.t)
               /\ r.exports > 0 /\ r.ended.t > 0 => r.success = r.ended.success
    BY <2>2 DEF Accounts
  <2>3. QED
    BY <2>1, <2>2 DEF RecordingAligned
<1>2. QED
  BY <1>1, Invariant, PTL

-----------------------------------------------------------------------------
(* The timing of events. *)

\* The last time of s, of the first there is nothing before.
LastTime(s) == IF s = <<>> THEN 0 ELSE s[Len(s)]

\* The times of s are apart as R says, and with left steps to go at time t the
\* next will be.  The first of them may come one step early.
Timer(s, t, left, R) ==
  /\ s \in Seq(Nat)
  /\ \A i \in 1 .. Len(s) : \E x \in R :
       s[i] - (IF i = 1 THEN 0 ELSE s[i - 1]) = x \/ (i = 1 /\ s[i] = x - 1)
  /\ \E x \in R : t - LastTime(s) + left = x \/ (s = <<>> /\ t + left = x - 1)

\* An interval begins with a reset: outside of a step, or in its middle, when the
\* step still counts for the new episode.
LEMMA TimerStarts ==
  ASSUME NEW R \in SUBSET (Nat \ {0}), NEW x \in R
  PROVE  Timer(<<>>, 0, x, R) /\ Timer(<<>>, -1, x, R)
<1>1. <<>> \in Seq(Nat) /\ Len(<<>>) = 0 /\ x \in Nat /\ LastTime(<<>>) = 0
  BY DEF LastTime
<1>2. 0 - 0 + x = x /\ -1 + x = x - 1
  BY <1>1
<1>3. QED
  BY <1>1, <1>2 DEF Timer

\* One more step passes.
LEMMA TimerPasses ==
  ASSUME NEW R \in SUBSET (Nat \ {0}), NEW s \in Seq(Nat), NEW t \in Nat,
         NEW left \in Nat, left > 0, Timer(s, t - 1, left, R)
  PROVE  /\ left - 1 > 0 => Timer(s, t, left - 1, R)
         /\ left - 1 <= 0 => \A x \in R : Timer(Append(s, t), t, x, R)
<1>1. LastTime(s) \in Nat
  BY DEF LastTime
<1>2. PICK x \in R : (t - 1) - LastTime(s) + left = x
                     \/ (s = <<>> /\ (t - 1) + left = x - 1)
  BY DEF Timer
<1>3. ASSUME left - 1 > 0 PROVE Timer(s, t, left - 1, R)
  <2>1. (t - 1) - LastTime(s) + left = t - LastTime(s) + (left - 1)
        /\ (t - 1) + left = t + (left - 1)
    BY <1>1
  <2>2. QED
    BY <1>2, <2>1 DEF Timer
<1>4. ASSUME left - 1 <= 0, NEW y \in R PROVE Timer(Append(s, t), t, y, R)
  <2> DEFINE a == Append(s, t)
  <2>1. /\ a \in Seq(Nat) /\ Len(a) = Len(s) + 1 /\ a[Len(s) + 1] = t /\ a # <<>>
        /\ \A i \in 1 .. Len(s) : a[i] = s[i]
        /\ Len(s) \in Nat
    BY AppendProperties
  <2>2. left = 1
    BY <1>4
  <2>3. t - LastTime(s) = x \/ (s = <<>> /\ t = x - 1)
    BY <1>1, <1>2, <2>2
  <2>4. ASSUME NEW i \in 1 .. Len(a)
        PROVE  \E z \in R : a[i] - (IF i = 1 THEN 0 ELSE a[i - 1]) = z
                            \/ (i = 1 /\ a[i] = z - 1)
    <3>1. CASE i \in 1 .. Len(s)
      <4>1. a[i] = s[i] /\ (i # 1 => a[i - 1] = s[i - 1])
        BY <2>1, <3>1
      <4>2. PICK z \in R : s[i] - (IF i = 1 THEN 0 ELSE s[i - 1]) = z
                           \/ (i = 1 /\ s[i] = z - 1)
        BY <3>1 DEF Timer
      <4>3. QED
        BY <4>1, <4>2
    <3>2. CASE i = Len(s) + 1
      <4>1. a[i] = t
        BY <2>1, <3>2
      <4>2. CASE Len(s) = 0
        <5>1. s = <<>> /\ i = 1
          BY <3>2, <4>2, EmptySeq
        <5>2. t = x \/ t = x - 1
          BY <2>3, <5>1 DEF LastTime
        <5>3. QED
          BY <4>1, <5>1, <5>2
      <4>3. CASE Len(s) # 0
        <5>1. s # <<>> /\ i # 1 /\ i - 1 = Len(s) /\ Len(s) \in 1 .. Len(s)
          BY <2>1, <3>2, <4>3
        <5>2. a[i - 1] = s[Len(s)] /\ LastTime(s) = s[Len(s)]
          BY <2>1, <5>1 DEF LastTime
        <5>3. QED
          BY <2>3, <4>1, <5>1, <5>2
      <4>4. QED
        BY <4>2, <4>3
    <3>3. i \in 1 .. Len(s) \/ i = Len(s) + 1
      BY <2>1
    <3>4. QED
      BY <3>1, <3>2, <3>3
  <2>5. LastTime(a) = t /\ t - t + y = y
    BY <2>1 DEF LastTime
  <2> HIDE DEF a
  <2>6. Timer(a, t, y, R)
    BY <2>1, <2>4, <2>5 DEF Timer
  <2>7. QED
    BY <2>6 DEF a
<1>5. QED
  BY <1>3, <1>4

\* What the timer says of the times so far.
LEMMA TimerSpaced ==
  ASSUME NEW R \in SUBSET (Nat \ {0}), NEW s, NEW t \in Nat, NEW left \in Nat,
         left > 0, Timer(s, t, left, R)
  PROVE  Spaced(s, t, R)
<1> DEFINE times == <<0>> \o s
<1>1. s \in Seq(Nat) /\ <<0>> \in Seq(Nat) /\ Len(<<0>>) = 1 /\ <<0>>[1] = 0
  BY DEF Timer
<1>2. /\ Len(times) = Len(s) + 1 /\ times[1] = 0 /\ Len(s) \in Nat
      /\ \A i \in 1 .. Len(s) : times[i + 1] = s[i]
  <2>1. Len(times) = Len(s) + 1 /\ Len(s) \in Nat
    BY <1>1, ConcatProperties
  <2>2. \A i \in 1 .. Len(s) + 1 : times[i] = IF i <= 1 THEN <<0>>[i] ELSE s[i - 1]
    BY <1>1, <2>1, ConcatProperties
  <2>3. QED
    BY <1>1, <2>1, <2>2
<1> HIDE DEF times
<1>3. ASSUME NEW i \in 1 .. Len(s)
      PROVE  \E x \in R : times[i + 1] - times[i] = x \/ (i = 1 /\ times[i + 1] = x - 1)
  <2>1. PICK x \in R : s[i] - (IF i = 1 THEN 0 ELSE s[i - 1]) = x
                       \/ (i = 1 /\ s[i] = x - 1)
    BY DEF Timer
  <2>2. times[i + 1] = s[i] /\ times[i] = IF i = 1 THEN 0 ELSE s[i - 1]
    <3>1. CASE i = 1
      BY <1>2, <3>1
    <3>2. CASE i # 1
      <4>1. i - 1 \in 1 .. Len(s) /\ (i - 1) + 1 = i
        BY <3>2
      <4>2. QED
        BY <1>2, <3>2, <4>1
    <3>3. QED
      BY <3>1, <3>2
  <2>3. QED
    BY <2>1, <2>2
<1>4. \E x \in R : t - times[Len(times)] < x
  <2>1. LastTime(s) \in Nat /\ times[Len(times)] = LastTime(s)
    <3>1. CASE s = <<>>
      BY <1>2, <3>1 DEF LastTime
    <3>2. CASE s # <<>>
      BY <1>1, <1>2, <3>2 DEF LastTime
    <3>3. QED
      BY <3>1, <3>2
  <2>2. PICK x \in R : t - LastTime(s) + left = x \/ (s = <<>> /\ t + left = x - 1)
    BY DEF Timer
  <2>3. x \in Nat
    OBVIOUS
  <2>4. CASE s = <<>> /\ t + left = x - 1
    BY <2>1, <2>3, <2>4 DEF LastTime
  <2>5. CASE t - LastTime(s) + left = x
    BY <2>1, <2>3, <2>5
  <2>6. QED
    BY <2>2, <2>4, <2>5
<1>5. QED
  BY <1>3, <1>4 DEF Spaced, times

\* The commands of a row, in time t of its episode.
CommandsDue(r, t) ==
  /\ r.commands # <<>> /\ r.commands[1] = 0
  /\ Timer(Tail(r.commands), t, r.commandLeft, CommandRange)

\* The same of the interval events.
EventsDue(r, t) == Timer(r.events, t, r.eventLeft, IntervalRange)

\* The reset events of a row by environment step n.
TriggersDue(r, n) ==
  LET s == r.triggers IN
  /\ \A i \in 1 .. Len(s) : s[i].applied <=>
       \A j \in 1 .. i - 1 : s[j].applied => s[i].at - s[j].at >= MinStepCount
  /\ \A i \in 1 .. Len(s) : s[i].applied => s[i].at <= r.triggeredAt
  /\ r.triggeredAt <= n
  /\ IF r.triggered
     THEN \E i \in 1 .. Len(s) : s[i].applied /\ s[i].at = r.triggeredAt
     ELSE s = <<>> /\ r.triggeredAt = 0

\* A reset begins the intervals, in the middle of a step (k = 1) or not (k = 0).
LEMMA ResetDue ==
  ASSUME NEW r \in RowType, NEW n \in Nat, NEW q \in ResetIdx(r, n), NEW k \in {0, 1}
  PROVE  CommandsDue(q, q.state.t - k) /\ EventsDue(q, q.state.t - k)
<1>1. /\ q.state.t = 0 /\ q.commands = <<0>> /\ q.events = <<>>
      /\ q.commandLeft \in CommandRange /\ q.eventLeft \in IntervalRange
  <2>1. WasReset(q, r, n)
    BY ResetFields
  <2>2. QED
    BY ONLY <2>1 DEF WasReset
<1>2. q.commands # <<>> /\ q.commands[1] = 0 /\ Tail(q.commands) = <<>>
  BY <1>1
<1>3. q.state.t - k = 0 \/ q.state.t - k = -1
  BY <1>1
<1>4. /\ CommandRange \in SUBSET (Nat \ {0}) /\ IntervalRange \in SUBSET (Nat \ {0})
  BY RangeAssumption
<1>5. Timer(<<>>, q.state.t - k, q.commandLeft, CommandRange)
  BY <1>1, <1>3, <1>4, TimerStarts
<1>6. Timer(<<>>, q.state.t - k, q.eventLeft, IntervalRange)
  BY <1>1, <1>3, <1>4, TimerStarts
<1>7. QED
  BY <1>1, <1>2, <1>5, <1>6 DEF CommandsDue, EventsDue

\* CommandTerm.compute lets a step pass.
LEMMA CommandComputeDue ==
  ASSUME NEW r \in RowType, r.commandLeft > 0, NEW q \in CommandCompute(r),
         CommandsDue(r, r.state.t - 1)
  PROVE  /\ CommandsDue(q, q.state.t)
         /\ q.state = r.state /\ q.events = r.events /\ q.eventLeft = r.eventLeft
         /\ q.triggeredAt = r.triggeredAt /\ q.triggered = r.triggered
         /\ q.triggers = r.triggers
<1>1. CommandComputed(q, r)
  BY CommandComputeFields
<1>2. /\ r.commands \in Seq(Nat) /\ r.commandLeft \in Nat /\ r.state \in Stamp
      /\ r.commands # <<>>
  BY RowFields DEF CommandsDue
<1>3. r.state.t \in Nat
  BY <1>2, StampFields
<1>4. Tail(r.commands) \in Seq(Nat) /\ CommandRange \in SUBSET (Nat \ {0})
  BY <1>2, RangeAssumption, HeadTailProperties
<1>5. Timer(Tail(r.commands), r.state.t - 1, r.commandLeft, CommandRange)
  BY DEF CommandsDue
<1>6. /\ r.commandLeft - 1 > 0 =>
           Timer(Tail(r.commands), r.state.t, r.commandLeft - 1, CommandRange)
      /\ r.commandLeft - 1 <= 0 => \A x \in CommandRange :
           Timer(Append(Tail(r.commands), r.state.t), r.state.t, x, CommandRange)
  BY <1>2, <1>3, <1>4, <1>5, TimerPasses
<1>7. q.state = r.state
  BY <1>1 DEF CommandComputed, SameRest
<1>8. CASE r.commandLeft - 1 <= 0
  <2>1. /\ q.commandLeft \in CommandRange /\ q.commands = Append(r.commands, r.state.t)
    BY <1>1, <1>2, <1>8 DEF CommandComputed
  <2>2. /\ q.commands # <<>> /\ q.commands[1] = r.commands[1]
        /\ Tail(q.commands) = Append(Tail(r.commands), r.state.t)
    <3>1. 1 \in 1 .. Len(r.commands)
      BY <1>2
    <3>2. QED
      BY <1>2, <1>3, <2>1, <3>1, AppendProperties, HeadTailAppend
  <2>3. QED
    BY <1>1, <1>6, <1>7, <1>8, <2>1, <2>2 DEF CommandsDue, CommandComputed, SameRest
<1>9. CASE r.commandLeft - 1 > 0
  <2>1. q.commandLeft = r.commandLeft - 1 /\ q.commands = r.commands
    BY <1>1, <1>2, <1>9 DEF CommandComputed
  <2>2. QED
    BY <1>1, <1>6, <1>7, <1>9, <2>1 DEF CommandsDue, CommandComputed, SameRest
<1>10. QED
  BY <1>2, <1>8, <1>9

\* EventManager.apply in mode "interval" lets a step pass.
LEMMA ApplyIntervalEventDue ==
  ASSUME NEW r \in RowType, r.eventLeft > 0, NEW q \in ApplyIntervalEvent(r),
         EventsDue(r, r.state.t - 1)
  PROVE  /\ EventsDue(q, q.state.t)
         /\ q.state = r.state /\ q.commands = r.commands
         /\ q.commandLeft = r.commandLeft
         /\ q.triggeredAt = r.triggeredAt /\ q.triggered = r.triggered
         /\ q.triggers = r.triggers
<1>1. IntervalApplied(q, r)
  BY ApplyIntervalEventFields
<1>2. r.events \in Seq(Nat) /\ r.eventLeft \in Nat /\ r.state \in Stamp
  BY RowFields
<1>3. r.state.t \in Nat /\ IntervalRange \in SUBSET (Nat \ {0})
  BY <1>2, StampFields, RangeAssumption
<1>4. /\ r.eventLeft - 1 > 0 => Timer(r.events, r.state.t, r.eventLeft - 1, IntervalRange)
      /\ r.eventLeft - 1 <= 0 => \A x \in IntervalRange :
           Timer(Append(r.events, r.state.t), r.state.t, x, IntervalRange)
  BY <1>2, <1>3, TimerPasses DEF EventsDue
<1>5. EventsDue(q, r.state.t)
  BY <1>1, <1>4 DEF EventsDue, IntervalApplied
<1>6. QED
  BY <1>1, <1>5 DEF IntervalApplied, SameRest

\* A reset event is applied when it is due, and only then.
LEMMA ResetTriggersDue ==
  ASSUME NEW r \in RowType, NEW n \in Nat, NEW m \in Nat, m <= n, TriggersDue(r, m),
         NEW q \in ResetIdx(r, n)
  PROVE  TriggersDue(q, n)
<1> DEFINE s == r.triggers  u == q.triggers  v == Valid(r, n)
           e == [at |-> n, applied |-> v]
<1>1. /\ q.triggeredAt = (IF v THEN n ELSE r.triggeredAt)
      /\ q.triggered = (r.triggered \/ v) /\ u = Append(s, e)
  <2>1. WasReset(q, r, n)
    BY ResetFields
  <2>2. QED
    BY ONLY <2>1 DEF WasReset
<1>2. /\ s \in Seq([at : Nat, applied : BOOLEAN]) /\ r.triggeredAt \in Nat
      /\ r.triggered \in BOOLEAN /\ v \in BOOLEAN /\ MinStepCount \in Nat
  BY RowFields, CountAssumption DEF Valid
<1>3. e \in [at : Nat, applied : BOOLEAN] /\ e.at = n /\ e.applied = v
  BY <1>2
<1>4. /\ Len(u) = Len(s) + 1 /\ u[Len(s) + 1] = e /\ Len(s) \in Nat
      /\ \A i \in 1 .. Len(s) : u[i] = s[i]
  BY <1>1, <1>2, <1>3, AppendProperties
<1>5. /\ \A i \in 1 .. Len(s) : s[i].at \in Nat /\ s[i].applied \in BOOLEAN
      /\ \A i \in 1 .. Len(s) : s[i].applied => s[i].at <= r.triggeredAt
      /\ r.triggeredAt <= n
      /\ r.triggered => \E i \in 1 .. Len(s) : s[i].applied /\ s[i].at = r.triggeredAt
      /\ ~r.triggered => s = <<>> /\ r.triggeredAt = 0
  <2>1. \A i \in 1 .. Len(s) : s[i].at \in Nat /\ s[i].applied \in BOOLEAN
    <3> DEFINE T == [at : Nat, applied : BOOLEAN]
    <3>1. s \in Seq(T)
      BY <1>2
    <3> HIDE DEF T, s
    <3>2. \A i \in 1 .. Len(s) : s[i] \in T
      BY <3>1
    <3>3. \A f \in T : f.at \in Nat /\ f.applied \in BOOLEAN
      BY DEF T
    <3>4. QED
      BY <3>2, <3>3
  <2>2. r.triggeredAt <= n
    BY <1>2 DEF TriggersDue
  <2>3. \A i \in 1 .. Len(s) : s[i].applied => s[i].at <= r.triggeredAt
    BY DEF TriggersDue
  <2>4. /\ r.triggered => \E i \in 1 .. Len(s) : s[i].applied /\ s[i].at = r.triggeredAt
        /\ ~r.triggered => s = <<>> /\ r.triggeredAt = 0
    BY DEF TriggersDue
  <2>5. QED
    BY <2>1, <2>2, <2>3, <2>4
<1>6. v <=> \A j \in 1 .. Len(s) : s[j].applied => n - s[j].at >= MinStepCount
  <2>1. CASE ~r.triggered
    <3>1. Len(s) = 0
      BY <1>5, <2>1
    <3>2. v
      BY <1>5, <2>1 DEF Valid
    <3>3. QED
      BY <3>1, <3>2
  <2>2. CASE r.triggered
    <3>1. v <=> n - r.triggeredAt >= MinStepCount
      BY <1>2, <1>5, <2>2 DEF Valid
    <3>2. ASSUME v, NEW j \in 1 .. Len(s), s[j].applied
          PROVE  n - s[j].at >= MinStepCount
      <4>1. s[j].at \in Nat /\ s[j].at <= r.triggeredAt
        BY <1>5, <3>2
      <4>2. n - r.triggeredAt >= MinStepCount
        BY <3>1, <3>2
      <4>3. QED
        BY <1>2, <4>1, <4>2
    <3>3. ASSUME \A j \in 1 .. Len(s) : s[j].applied => n - s[j].at >= MinStepCount
          PROVE  v
      <4>1. PICK i \in 1 .. Len(s) : s[i].applied /\ s[i].at = r.triggeredAt
        BY <1>5, <2>2
      <4>2. QED
        BY <3>1, <3>3, <4>1
    <3>4. QED
      BY <3>2, <3>3
  <2>3. QED
    BY <2>1, <2>2
<1> HIDE DEF s, u, v, e
<1>7. ASSUME NEW i \in 1 .. Len(u)
      PROVE  u[i].applied <=>
               \A j \in 1 .. i - 1 : u[j].applied => u[i].at - u[j].at >= MinStepCount
  <2>1. \A j \in 1 .. i - 1 : j \in 1 .. Len(s) /\ u[j] = s[j]
    BY <1>4
  <2>2. CASE i \in 1 .. Len(s)
    <3>1. u[i] = s[i]
      BY <1>4, <2>2
    <3>2. s[i].applied <=>
            \A j \in 1 .. i - 1 : s[j].applied => s[i].at - s[j].at >= MinStepCount
      BY <2>2 DEF TriggersDue, s
    <3>3. QED
      BY <2>1, <3>1, <3>2
  <2>3. CASE i = Len(s) + 1
    <3>1. u[i].applied = v /\ u[i].at = n /\ 1 .. i - 1 = 1 .. Len(s)
      BY <1>3, <1>4, <2>3
    <3>2. QED
      BY <1>6, <2>1, <3>1
  <2>4. i \in 1 .. Len(s) \/ i = Len(s) + 1
    BY <1>4
  <2>5. QED
    BY <2>2, <2>3, <2>4
<1>8. ASSUME NEW i \in 1 .. Len(u), u[i].applied
      PROVE  u[i].at <= q.triggeredAt
  <2>1. CASE i \in 1 .. Len(s)
    BY <1>1, <1>2, <1>4, <1>5, <1>8, <2>1
  <2>2. CASE i = Len(s) + 1
    <3>1. v /\ u[i].at = n
      BY <1>3, <1>4, <1>8, <2>2
    <3>2. QED
      BY <1>1, <3>1
  <2>3. i \in 1 .. Len(s) \/ i = Len(s) + 1
    BY <1>4
  <2>4. QED
    BY <2>1, <2>2, <2>3
<1>9. q.triggeredAt <= n
  BY <1>1, <1>5
<1>10. IF q.triggered
       THEN \E i \in 1 .. Len(u) : u[i].applied /\ u[i].at = q.triggeredAt
       ELSE u = <<>> /\ q.triggeredAt = 0
  <2>1. CASE v
    <3>1. Len(s) + 1 \in 1 .. Len(u) /\ u[Len(s) + 1].applied /\ u[Len(s) + 1].at = n
      <4>1. Len(s) + 1 \in 1 .. Len(u)
        BY <1>4
      <4>2. QED
        BY <1>3, <1>4, <2>1, <4>1
    <3>2. QED
      BY <1>1, <2>1, <3>1
  <2>2. CASE ~v
    <3>1. r.triggered
      BY <1>5, <1>6, <2>2
    <3>2. PICK i \in 1 .. Len(s) : s[i].applied /\ s[i].at = r.triggeredAt
      BY <1>5, <3>1
    <3>3. i \in 1 .. Len(u) /\ u[i] = s[i]
      BY <1>4
    <3>4. QED
      BY <1>1, <2>2, <3>1, <3>2, <3>3
  <2>3. QED
    BY <2>1, <2>2
<1>11. QED
  BY <1>7, <1>8, <1>9, <1>10 DEF TriggersDue, u

\* A row between two calls.
OnTime(r, n) == CommandsDue(r, r.state.t) /\ EventsDue(r, r.state.t) /\ TriggersDue(r, n)

\* The observations are no event.
LEMMA ObservationComputeOnTime ==
  ASSUME NEW r \in RowType, NEW n, OnTime(r, n)
  PROVE  OnTime(ObservationCompute(r), n)
<1> DEFINE q == ObservationCompute(r)
<1>1. /\ q.state = r.state /\ q.commandLeft = r.commandLeft /\ q.commands = r.commands
      /\ q.eventLeft = r.eventLeft /\ q.events = r.events
      /\ q.triggeredAt = r.triggeredAt /\ q.triggered = r.triggered
      /\ q.triggers = r.triggers
  BY ObservationComputeFields DEF SameRest
<1> HIDE DEF q
<1>2. CommandsDue(q, q.state.t) /\ EventsDue(q, q.state.t)
  BY <1>1 DEF OnTime, CommandsDue, EventsDue
<1>3. TriggersDue(q, n)
  BY <1>1 DEF OnTime, TriggersDue
<1>4. QED
  BY <1>2, <1>3 DEF OnTime, q

\* A step of a row, with or without a reset in its middle.
LEMMA StepRowsOnTime ==
  ASSUME NEW r, AtRest(r), steps \in Nat, OnTime(r, steps),
         NEW d \in {"no", "success", "fail"}, NEW q \in StepRows(r, d)
  PROVE  OnTime(q, steps + 1)
<1> DEFINE played == Stepped(r, d)
           reset  == IF d = "no" THEN {played} ELSE ResetIdx(played, steps + 1)
<1>1. Running(played) /\ r \in RowType
  BY SteppedKeeps DEF AtRest, Running, Accounts
<1>2. /\ SameTimers(played, r) /\ played.state.t = r.state.t + 1 /\ r.state.t \in Nat
  <2>1. r.state \in Stamp
    BY <1>1, RowFields
  <2>2. /\ SameTimers(played, r)
        /\ played.state = [ep |-> r.state.ep, t |-> r.state.t + 1]
    BY <1>1, SteppedFields
  <2>3. QED
    BY <2>1, <2>2, StampFields
<1>3. PICK p \in reset : \E c \in CommandCompute(p) : \E m \in ApplyIntervalEvent(c) :
        q = ObservationCompute(m)
  BY DEF StepRows
<1> HIDE DEF played
<1>4. CommandsDue(played, played.state.t - 1) /\ EventsDue(played, played.state.t - 1)
  <2>1. played.state.t - 1 = r.state.t
    BY <1>2
  <2>2. QED
    BY <1>2, <2>1 DEF OnTime, CommandsDue, EventsDue, SameTimers
<1>5. TriggersDue(played, steps)
  BY <1>2 DEF OnTime, TriggersDue, SameTimers
<1>6. /\ Running(p) /\ TriggersDue(p, steps + 1)
      /\ CommandsDue(p, p.state.t - 1) /\ EventsDue(p, p.state.t - 1)
  <2>1. CASE d = "no"
    <3>1. p = played
      BY <1>3, <2>1
    <3>2. TriggersDue(played, steps + 1)
      <4>1. played.triggeredAt <= steps /\ played.triggeredAt \in Nat
        BY <1>1, <1>5, RowFields DEF TriggersDue, Running, Accounts
      <4>2. played.triggeredAt <= steps + 1
        BY <4>1
      <4>3. QED
        BY <1>5, <4>2 DEF TriggersDue
    <3>3. QED
      BY <1>1, <1>4, <3>1, <3>2
  <2>2. CASE d # "no"
    <3>1. p \in ResetIdx(played, steps + 1)
      BY <1>3, <2>2
    <3>2. /\ steps + 1 \in Nat /\ steps <= steps + 1 /\ 1 \in {0, 1}
          /\ Accounts(played) /\ played \in RowType
      BY <1>1 DEF Running, Accounts
    <3>3. Running(p)
      BY <3>1, <3>2, ResetKeeps
    <3>4. TriggersDue(p, steps + 1)
      BY <1>5, <3>1, <3>2, ResetTriggersDue
    <3>5. CommandsDue(p, p.state.t - 1) /\ EventsDue(p, p.state.t - 1)
      BY <3>1, <3>2, ResetDue
    <3>6. QED
      BY <3>3, <3>4, <3>5
  <2>3. QED
    BY <2>1, <2>2
<1>7. PICK c \in CommandCompute(p) : \E m \in ApplyIntervalEvent(c) :
        q = ObservationCompute(m)
  BY <1>3
<1>8. PICK m \in ApplyIntervalEvent(c) : q = ObservationCompute(m)
  BY <1>7
<1>9. p \in RowType /\ p.commandLeft > 0
  BY <1>6 DEF Running, Accounts
<1>10. Running(c)
  BY <1>6, CommandComputeKeeps
<1>11. c \in RowType /\ c.eventLeft > 0
  BY <1>10 DEF Running, Accounts
<1>12. /\ CommandsDue(c, c.state.t)
       /\ c.state = p.state /\ c.events = p.events /\ c.eventLeft = p.eventLeft
       /\ c.triggeredAt = p.triggeredAt /\ c.triggered = p.triggered
       /\ c.triggers = p.triggers
  BY <1>6, <1>9, CommandComputeDue
<1>13. EventsDue(c, c.state.t - 1)
  BY <1>6, <1>12 DEF EventsDue
<1>14. /\ EventsDue(m, m.state.t)
       /\ m.state = c.state /\ m.commands = c.commands
       /\ m.commandLeft = c.commandLeft
       /\ m.triggeredAt = c.triggeredAt /\ m.triggered = c.triggered
       /\ m.triggers = c.triggers
  BY <1>11, <1>13, ApplyIntervalEventDue
<1>15. CommandsDue(m, m.state.t)
  BY <1>12, <1>14 DEF CommandsDue
<1>16. TriggersDue(m, steps + 1)
  BY <1>6, <1>12, <1>14 DEF TriggersDue
<1>17. m \in RowType
  BY <1>10, ApplyIntervalEventKeeps DEF Running, Accounts
<1>18. QED
  BY <1>8, <1>14, <1>15, <1>16, <1>17, ObservationComputeOnTime DEF OnTime

\* The timing of everything; before the first reset there are no intervals.
TimeInv ==
  /\ steps - globalAt + globalLeft \in GlobalRange
  /\ \A e \in Envs : IF resets = 0 THEN TriggersDue(row[e], steps)
                                   ELSE OnTime(row[e], steps)

\* The timing holds before the first reset,
LEMMA InitTimeInv == Init => TimeInv
<1> SUFFICES ASSUME Init PROVE TimeInv
  OBVIOUS
<1>1. steps - globalAt + globalLeft \in GlobalRange
  <2>1. globalLeft \in Nat /\ globalLeft \in GlobalRange /\ steps = 0 /\ globalAt = 0
    BY RangeAssumption DEF Init
  <2>2. steps - globalAt + globalLeft = globalLeft
    BY <2>1
  <2>3. QED
    BY <2>1, <2>2
<1>2. ASSUME NEW x \in CommandRange, NEW y \in IntervalRange
      PROVE  TriggersDue(NewRow(x, y), 0)
  <2> DEFINE r == NewRow(x, y)
  <2>1. r.triggers = <<>> /\ r.triggeredAt = 0 /\ r.triggered = FALSE
    BY DEF NewRow
  <2> HIDE DEF r
  <2>2. TriggersDue(r, 0)
    BY <2>1 DEF TriggersDue
  <2>3. QED
    BY <2>2 DEF r
<1>3. \A e \in Envs : TriggersDue(row[e], 0)
  BY <1>2 DEF Init
<1>4. QED
  BY <1>1, <1>3 DEF Init, TimeInv

\* ... is kept by a step, also of the event in global time,
LEMMA StepTimeInv ==
  ASSUME IInv, TimeInv, NEW done \in [Envs -> {"no", "success", "fail"}], Step(done)
  PROVE  TimeInv'
<1>1. /\ steps \in Nat /\ steps' = steps + 1 /\ resets' = resets
      /\ globalAt \in Nat /\ globalLeft \in Nat \ {0}
  BY CountAssumption DEF IInv, Step
<1>2. \A e \in Envs : row'[e] \in StepRows(row[e], done[e])
  BY DEF Step, EachOf
<1>3. (steps - globalAt + globalLeft \in GlobalRange)'
  <2>1. CASE globalLeft - 1 <= 0
    <3>1. globalLeft' \in GlobalRange /\ globalAt' = steps + 1 /\ globalLeft' \in Nat
      <4>1. GlobalRange \subseteq Nat
        BY RangeAssumption
      <4>2. globalLeft' \in GlobalRange /\ globalAt' = steps + 1
        BY <2>1 DEF Step
      <4>3. QED
        BY <4>1, <4>2
    <3>2. \A a, b \in Nat : (a + 1) - (a + 1) + b = b
      OBVIOUS
    <3>3. QED
      BY <1>1, <3>1, <3>2
  <2>2. CASE ~(globalLeft - 1 <= 0)
    <3>1. globalLeft' = globalLeft - 1 /\ globalAt' = globalAt
      BY <2>2 DEF Step
    <3>2. steps' - globalAt' + globalLeft' = steps - globalAt + globalLeft
      BY <1>1, <3>1
    <3>3. QED
      BY <3>2 DEF TimeInv
  <2>3. QED
    BY <2>1, <2>2
<1>4. ASSUME NEW e \in Envs PROVE resets # 0 /\ OnTime(row'[e], steps + 1)
  <2>1. row[e].state.ep > 0 /\ done[e] \in {"no", "success", "fail"}
    BY DEF Step
  <2>2. resets # 0
    BY <2>1 DEF IInv
  <2>3. AtRest(row[e]) /\ OnTime(row[e], steps)
    BY <2>2 DEF IInv, TimeInv
  <2>4. QED
    BY <1>1, <1>2, <2>1, <2>2, <2>3, StepRowsOnTime
<1>5. QED
  BY <1>1, <1>3, <1>4 DEF TimeInv

\* ... and by a reset, which leaves global time alone,
LEMMA ResetTimeInv ==
  ASSUME IInv, TimeInv, NEW E \in SUBSET Envs, resets = 0 => E = Envs, Reset(E)
  PROVE  TimeInv'
<1>1. /\ steps \in Nat /\ resets \in Nat /\ resets' = resets + 1
      /\ UNCHANGED <<steps, globalLeft, globalAt>>
  <2>1. steps \in 0 .. MaxSteps /\ resets \in 0 .. MaxResets
    BY DEF IInv
  <2>2. resets' = resets + 1 /\ UNCHANGED <<steps, globalLeft, globalAt>>
    BY DEF Reset
  <2>3. MaxSteps \in Nat /\ MaxResets \in Nat
    BY CountAssumption
  <2>4. QED
    BY <2>1, <2>2, <2>3
<1>2. \A e \in Envs : \E q \in IF e \in E THEN ResetIdx(row[e], steps) ELSE {row[e]} :
           row'[e] = ObservationCompute(q)
  BY DEF Reset, EachOf
<1>3. ASSUME NEW e \in Envs PROVE OnTime(row'[e], steps)
  <2>1. PICK q \in IF e \in E THEN ResetIdx(row[e], steps) ELSE {row[e]} :
          row'[e] = ObservationCompute(q)
    BY <1>2
  <2>2. Accounts(row[e]) /\ row[e] \in RowType
    BY DEF IInv, AtRest, Running, Accounts
  <2>3. q \in RowType /\ OnTime(q, steps)
    <3>1. CASE e \in E
      <4>1. q \in ResetIdx(row[e], steps)
        BY <2>1, <3>1
      <4>2. Running(q)
        BY <1>1, <2>2, <4>1, ResetKeeps
      <4>3. q \in RowType /\ q.state.t - 0 = q.state.t
        <5>1. q \in RowType /\ q.state \in Stamp
          BY <4>2, RowFields DEF Running, Accounts
        <5>2. q.state.t \in Nat
          BY <5>1, StampFields
        <5>3. QED
          BY <5>1, <5>2
      <4>4. CommandsDue(q, q.state.t - 0) /\ EventsDue(q, q.state.t - 0)
        BY <1>1, <2>2, <4>1, ResetDue
      <4>5. TriggersDue(row[e], steps) /\ steps <= steps
        BY <1>1 DEF TimeInv, OnTime
      <4>6. TriggersDue(q, steps)
        BY <1>1, <2>2, <4>1, <4>5, ResetTriggersDue
      <4>7. QED
        BY <4>3, <4>4, <4>6 DEF OnTime
    <3>2. CASE e \notin E
      <4>1. q = row[e] /\ resets # 0
        BY <2>1, <3>2
      <4>2. QED
        BY <2>2, <4>1 DEF TimeInv
    <3>3. QED
      BY <3>1, <3>2
  <2>4. QED
    BY <2>1, <2>3, ObservationComputeOnTime
<1>4. resets' # 0
  BY <1>1
<1>5. QED
  BY <1>1, <1>3, <1>4 DEF TimeInv

\* ... and so by everything.
LEMMA NextTimeInv == IInv /\ TimeInv /\ [Next]_vars => TimeInv'
<1> SUFFICES ASSUME IInv, TimeInv, [Next]_vars PROVE TimeInv'
  OBVIOUS
<1>1. CASE \E done \in [Envs -> {"no", "success", "fail"}] : Step(done)
  BY <1>1, StepTimeInv
<1>2. CASE \E E \in SUBSET Envs \ {{}} : (resets = 0 => E = Envs) /\ Reset(E)
  BY <1>2, ResetTimeInv
<1>3. CASE UNCHANGED vars
  BY <1>3 DEF TimeInv, vars
<1>4. QED
  BY <1>1, <1>2, <1>3 DEF Next

\* The invariants imply the property.
LEMMA OnTimeImplies == IInv /\ TimeInv => EventsOnTime
<1> SUFFICES ASSUME IInv, TimeInv PROVE EventsOnTime
  OBVIOUS
<1>1. \A e \in Envs : TriggersDue(row[e], steps)
  BY DEF TimeInv, OnTime
<1>2. ResetEventsDue
  BY <1>1 DEF ResetEventsDue, TriggersDue
<1>3. ASSUME NEW e \in Envs, row[e].state.ep > 0
      PROVE  /\ Spaced(row[e].events, row[e].state.t, IntervalRange)
             /\ Len(row[e].commands) > 0 /\ row[e].commands[1] = 0
             /\ Spaced(Tail(row[e].commands), row[e].state.t, CommandRange)
  <2> DEFINE r == row[e]
  <2>1. AtRest(r) /\ OnTime(r, steps)
    BY <1>3 DEF IInv, TimeInv
  <2>2. r \in RowType /\ r.commandLeft > 0 /\ r.eventLeft > 0
    BY <2>1 DEF AtRest, Running, Accounts
  <2>3. /\ r.state \in Stamp /\ r.commandLeft \in Nat /\ r.eventLeft \in Nat
        /\ r.commands \in Seq(Nat)
    BY <2>2, RowFields
  <2> HIDE DEF r
  <2>4. r.state.t \in Nat
    BY <2>3, StampFields
  <2>5. CommandRange \in SUBSET (Nat \ {0}) /\ IntervalRange \in SUBSET (Nat \ {0})
    BY RangeAssumption
  <2>6. Spaced(r.events, r.state.t, IntervalRange)
    BY <2>1, <2>2, <2>3, <2>4, <2>5, TimerSpaced DEF OnTime, EventsDue
  <2>7. Spaced(Tail(r.commands), r.state.t, CommandRange)
    BY <2>1, <2>2, <2>3, <2>4, <2>5, TimerSpaced DEF OnTime, CommandsDue
  <2>8. Len(r.commands) > 0 /\ r.commands[1] = 0
    <3>1. r.commands # <<>> /\ r.commands[1] = 0
      BY <2>1 DEF OnTime, CommandsDue
    <3>2. QED
      BY <2>3, <3>1, EmptySeq
  <2>9. QED
    BY <2>6, <2>7, <2>8 DEF r
<1>4. IntervalsKept
  BY <1>3 DEF IntervalsKept, TimeInv
<1>5. QED
  BY <1>2, <1>4 DEF EventsOnTime

\* EventManager and CommandTerm keep their times under any pattern of steps and
\* resets: within an episode, in global time and between reset events.
THEOREM EventsTimely == Spec => []EventsOnTime
<1>1. Spec => []TimeInv
  BY InitTimeInv, NextTimeInv, Invariant, PTL DEF Spec
<1>2. QED
  BY <1>1, OnTimeImplies, Invariant, PTL
=============================================================================
