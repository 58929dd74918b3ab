---------------------------- MODULE ContactSensor ----------------------------
(***************************************************************************)
(* The lazily updated contact sensor of the PhysX backend: the time stamps *)
(* of isaaclab/sensors/sensor_base.py and its kernels, and the buffers     *)
(* that isaaclab_physx/sensors/contact_sensor fills from them.             *)
(*                                                                         *)
(* Every environment owns a row of the sensor's arrays.  A call works on   *)
(* all rows at once, but each row has its own clock: it is set to zero     *)
(* when its environment is reset, advances with every scene.update, and a  *)
(* row is copied from the physics engine only when it is outdated and      *)
(* somebody reads the sensor.  Times are counted in physics steps, which   *)
(* makes the 1e-6 tolerance of the time comparison exact.                  *)
(*                                                                         *)
(* A measurement is known by the episode and the physics step it was taken *)
(* in and by whether the body was in contact; forces, poses and positions  *)
(* themselves are not modelled.                                            *)
(***************************************************************************)
EXTENDS Integers

CONSTANTS Envs,         \* the environments, one row each
          HistoryLength,\* cfg.history_length, at least 1
          Periods,      \* the values of cfg.update_period, in physics steps
          MaxTime,      \* bound: physics steps of an episode
          MaxEpisode    \* bound: episodes of an environment

ASSUME HistoryAssumption == HistoryLength \in Nat \ {0}
ASSUME PeriodAssumption  == Periods \subseteq Nat
ASSUME BoundAssumption   == MaxTime \in Nat /\ MaxEpisode \in Nat

VARIABLES
  period,   \* cfg.update_period
  lazy,     \* cfg.lazy_sensor_update of the scene
  episode,  \* the episode each environment is in
  buf,      \* what the contact view of the physics engine returns
  row,      \* the sensor's arrays, one row per environment
  seen      \* history variable: the measurements of the present episode that
            \* the sensor was asked to take

vars == <<period, lazy, episode, buf, row, seen>>

Steps   == 1 .. HistoryLength
Samples == [ep : Nat, t : Nat, hit : BOOLEAN]

\* The zero vector the buffers are created with and reset to.
Zero == [ep |-> 0, t |-> 0, hit |-> FALSE]

Rows == [timestamp  : Nat, lastUpdate : Nat, outdated : BOOLEAN,
         netForces  : Samples, history : [Steps -> Samples],
         contactPos : Samples,
         cat : Int, cct : Int, lastAir : Int, lastContact : Int]

FreshRow == [timestamp  |-> 0, lastUpdate |-> 0, outdated |-> TRUE,
             netForces  |-> Zero, history |-> [i \in Steps |-> Zero],
             contactPos |-> Zero,
             cat |-> 0, cct |-> 0, lastAir |-> 0, lastContact |-> 0]

-----------------------------------------------------------------------------
(* The kernels, each on one row. *)

\* Mutant: a row is outdated only when more than a period has passed.
UpdateTimestampLate(r) ==
  [r EXCEPT !.timestamp = @ + 1,
            !.outdated  = @ \/ r.timestamp + 1 - r.lastUpdate > period]

\* update_timestamp_kernel
UpdateTimestamp(r) ==
  [r EXCEPT !.timestamp = @ + 1,
            !.outdated  = @ \/ r.timestamp + 1 - r.lastUpdate >= period]

\* update_outdated_envs_kernel
ClearOutdated(r) == [r EXCEPT !.lastUpdate = r.timestamp, !.outdated = FALSE]

Push(h, s) == [i \in Steps |-> IF i = 1 THEN s ELSE h[i - 1]]

\* Mutant: the time on the ground is only that since the last read.
AirAndContactTimesLatest(r, s) ==
  LET elapsed == r.timestamp - r.lastUpdate
  IN  [r EXCEPT
         !.lastAir     = IF s.hit /\ r.cat > 0  THEN r.cat + elapsed ELSE @,
         !.lastContact = IF ~s.hit /\ r.cct > 0 THEN r.cct + elapsed ELSE @,
         !.cct         = IF s.hit THEN elapsed ELSE 0,
         !.cat         = IF s.hit THEN 0 ELSE @ + elapsed]

\* The four timers after a measurement s.
AirAndContactTimes(r, s) ==
  LET elapsed == r.timestamp - r.lastUpdate
  IN  [r EXCEPT
         !.lastAir     = IF s.hit /\ r.cat > 0  THEN r.cat + elapsed ELSE @,
         !.lastContact = IF ~s.hit /\ r.cct > 0 THEN r.cct + elapsed ELSE @,
         !.cct         = IF s.hit THEN @ + elapsed ELSE 0,
         !.cat         = IF s.hit THEN 0 ELSE @ + elapsed]

\* Mutant: no row is skipped.
UpdateNetForcesAlways(r, s) ==
  AirAndContactTimes([r EXCEPT !.netForces = s, !.history = Push(@, s)], s)

\* update_net_forces_kernel: a row that was not stepped since its reset is
\* skipped, the view still holds the measurement of the last episode.
UpdateNetForces(r, s) ==
  IF r.timestamp = 0
  THEN r
  ELSE AirAndContactTimes([r EXCEPT !.netForces = s,
                                    !.history = Push(@, s)], s)

\* unpack_contact_buffer_data, for the contact points and for the friction
\* forces: no row is skipped.
UnpackContactBuffer(r, s) == [r EXCEPT !.contactPos = s]

\* _update_buffers_impl
UpdateBuffers(r, s) == UnpackContactBuffer(UpdateNetForces(r, s), s)

\* _update_outdated_buffers: the mask is the outdated flag.
UpdateOutdatedBuffers(r, s) ==
  IF r.outdated THEN ClearOutdated(UpdateBuffers(r, s)) ELSE r

\* reset_envs_kernel and reset_contact_sensor_kernel.
ResetRow == FreshRow

-----------------------------------------------------------------------------
Init ==
  /\ period \in Periods
  /\ lazy \in BOOLEAN
  /\ episode = [e \in Envs |-> 1]
  /\ buf = [e \in Envs |-> Zero]
  /\ row = [e \in Envs |-> FreshRow]
  /\ seen = [e \in Envs |-> {}]

\* A measurement is due when the row is outdated and the view was written in
\* this episode.
Due(r, b, e) == IF r.outdated /\ b.ep = episode[e] THEN {b} ELSE {}

\* sim.step() and the scene.update() that follows it: the view of every
\* environment is written, the clocks advance, and without lazy updates the
\* outdated rows are filled at once.
PhysicsStep(hits) ==
  /\ \A e \in Envs : row[e].timestamp < MaxTime
  /\ buf' = [e \in Envs |->
               [ep  |-> episode[e],
                t   |-> IF buf[e].ep = episode[e] THEN buf[e].t + 1 ELSE 1,
                hit |-> e \in hits]]
  /\ LET stamped == [e \in Envs |-> UpdateTimestamp(row[e])]
     IN  IF lazy
         THEN row' = stamped /\ UNCHANGED seen
         ELSE /\ row' = [e \in Envs |-> UpdateOutdatedBuffers(stamped[e], buf'[e])]
              /\ seen' = [e \in Envs |->
                            seen[e] \cup Due(stamped[e], buf'[e], e)]
  /\ UNCHANGED <<period, lazy, episode>>

\* The data property, read by a term of a manager between two steps.
ReadData ==
  /\ row' = [e \in Envs |-> UpdateOutdatedBuffers(row[e], buf[e])]
  /\ seen' = [e \in Envs |-> seen[e] \cup Due(row[e], buf[e], e)]
  /\ UNCHANGED <<period, lazy, episode, buf>>

\* scene.reset(env_ids): a new episode for some of the environments.
Reset(E) ==
  /\ \A e \in E : episode[e] < MaxEpisode
  /\ episode' = [e \in Envs |-> IF e \in E THEN episode[e] + 1 ELSE episode[e]]
  /\ row' = [e \in Envs |-> IF e \in E THEN ResetRow ELSE row[e]]
  /\ seen' = [e \in Envs |-> IF e \in E THEN {} ELSE seen[e]]
  /\ UNCHANGED <<period, lazy, buf>>

Next ==
  \/ \E hits \in SUBSET Envs : PhysicsStep(hits)
  \/ ReadData
  \/ \E E \in SUBSET Envs \ {{}} : Reset(E)

Spec == Init /\ [][Next]_vars

-----------------------------------------------------------------------------
(* Properties *)

TypeOK ==
  /\ period \in Periods
  /\ lazy \in BOOLEAN
  /\ episode \in [Envs -> Nat \ {0}]
  /\ buf \in [Envs -> Samples]
  /\ row \in [Envs -> Rows]
  /\ seen \in [Envs -> SUBSET Samples]

\* The times of the measurements S, and of the reset, time zero; and the
\* measurements that found contact (b) or none (~b).
Times(S)       == {s.t : s \in S} \cup {0}
Of(S, b)       == {s \in S : s.hit = b}
IsLatest(t, S) == t \in Times(S) /\ \A s \in S : s.t <= t

Timer(r, b)     == IF b THEN r.cct ELSE r.cat
LastTimer(r, b) == IF b THEN r.lastContact ELSE r.lastAir

HistoryIs(r, S) ==
  LET h == r.history
  IN  /\ r.netForces = h[1]
      /\ \A i \in Steps : h[i] = Zero \/ h[i] \in S
      /\ \A i, j \in Steps : i < j /\ h[j] # Zero => h[i].t > h[j].t
      /\ \A s \in S : \/ \E i \in Steps : h[i] = s
                     \/ \A i \in Steps : h[i].t > s.t

TimerIs(r, S, b) ==
  \E last \in Times(S), other \in Times(Of(S, ~b)) :
    /\ IsLatest(last, S)
    /\ IsLatest(other, Of(S, ~b))
    /\ Timer(r, b) = last - other

\* The measurements of kind b whose run has ended.
Ended(S, b) == {s \in Of(S, b) : \E u \in Of(S, ~b) : u.t > s.t}

\* The time from the last of the others before the end of the run to the
\* first of them after it.
SpanIs(time, run, others) ==
  \E end \in run, stop \in others :
    LET before == {u \in others : u.t < end.t}
    IN  /\ \A s \in run : s.t <= end.t
        /\ stop.t > end.t
        /\ \A u \in others : u.t > end.t => u.t >= stop.t
        /\ \E from \in Times(before) : IsLatest(from, before) /\ time = stop.t - from

LastTimerIs(r, S, b) ==
  IF Ended(S, b) = {} THEN LastTimer(r, b) = 0
  ELSE SpanIs(LastTimer(r, b), Ended(S, b), Of(S, ~b))

\* The net forces and their history are the newest measurements of the
\* present episode, newest first, each once and none left out, and zero where
\* there are not enough of them: nothing of an earlier episode survives a
\* reset, whenever the sensor is read (sensor_base.py reset and update, issue
\* #4970).
HistoryOfEpisode ==
  \A e \in Envs :
    /\ \A s \in seen[e] : s.ep = episode[e] /\ s # Zero
    /\ HistoryIs(row[e], seen[e])

\* The current air and contact times run from the last measurement of the
\* other kind, or from the reset, to the newest measurement, and the last air
\* and contact times span the latest run of that kind which ended, from the
\* measurement before it to the one that ended it: however the reads were
\* spread over the steps (update_net_forces_kernel).
TimesOfEpisode ==
  \A e \in Envs, b \in BOOLEAN :
    TimerIs(row[e], seen[e], b) /\ LastTimerIs(row[e], seen[e], b)

\* A row that is not outdated is as fresh as cfg.update_period asks: its data
\* are those of the physics step less than a period ago, or of the reset, and
\* its clock counts the physics steps of this episode.  All of its buffers are
\* filled together: contact points and friction forces are of the measurement
\* that the net forces are of, except that before the first step of an
\* episode they are still of the last one (no row of theirs is skipped).
FreshWhenNotOutdated ==
  \A e \in Envs : ~row[e].outdated =>
    /\ row[e].timestamp - row[e].lastUpdate < IF period = 0 THEN 1 ELSE period
    /\ row[e].netForces.t = row[e].lastUpdate
    /\ row[e].timestamp = (IF buf[e].ep = episode[e] THEN buf[e].t ELSE 0)
    /\ row[e].lastUpdate > 0 => row[e].contactPos = row[e].netForces

=============================================================================
