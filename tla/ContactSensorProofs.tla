------------------------- MODULE ContactSensorProofs -------------------------
(***************************************************************************)
(* Proofs about ContactSensor for every set of environments, history       *)
(* length, update period and bound.                                        *)
(*                                                                         *)
(* The rows are independent, so the invariant is one predicate on a row,   *)
(* the view entry it is filled from and the measurements it was asked to   *)
(* take.  Three lemmas say that advancing the clock, filling an outdated   *)
(* row and resetting a row keep it.                                        *)
(***************************************************************************)
EXTENDS ContactSensor, TLAPS

\* The bookkeeping the properties rest on: the measurements are of this
\* episode, no two of the same step, the newest at the last update; the view
\* of this episode is as old as the row's clock; and an outdated row that was
\* stepped has a newer measurement waiting.
RowInv(r, v, S, ep, p) ==
  /\ r \in Rows
  /\ v \in Samples
  /\ S \subseteq Samples
  /\ \A s \in S : s.ep = ep /\ s.t > 0 /\ s.t <= r.lastUpdate
  /\ \A s, u \in S : s.t = u.t => s = u
  /\ r.lastUpdate \in Times(S)
  /\ r.lastUpdate <= r.timestamp
  /\ v.ep <= ep
  /\ r.timestamp = (IF v.ep = ep THEN v.t ELSE 0)
  /\ v.ep = ep => v.t > 0
  /\ r.outdated /\ r.timestamp > 0 => r.lastUpdate < r.timestamp
  /\ ~r.outdated => r.timestamp - r.lastUpdate < IF p = 0 THEN 1 ELSE p
  /\ r.netForces.t = r.lastUpdate
  /\ r.lastUpdate > 0 => r.contactPos = r.netForces
  /\ HistoryIs(r, S)

IInv ==
  /\ TypeOK
  /\ \A e \in Envs : RowInv(row[e], buf[e], seen[e], episode[e], period)

\* The timers, each on its own.
TimersInv ==
  \A e \in Envs, b \in BOOLEAN :
    /\ TimerIs(row[e], seen[e], b)
    /\ LastTimerIs(row[e], seen[e], b)

-----------------------------------------------------------------------------
\* A clock that advances with the view of the engine keeps the row's invariant.
LEMMA StampKeepsRow ==
  ASSUME NEW r, NEW v, NEW S, NEW ep \in Nat \ {0}, NEW hit \in BOOLEAN,
         NEW p \in Nat, p = period, RowInv(r, v, S, ep, p)
  PROVE  RowInv(UpdateTimestamp(r),
                [ep |-> ep, t |-> IF v.ep = ep THEN v.t + 1 ELSE 1, hit |-> hit],
                S, ep, p)
<1> DEFINE q == UpdateTimestamp(r)
           w == [ep |-> ep, t |-> IF v.ep = ep THEN v.t + 1 ELSE 1, hit |-> hit]
<1>0. r \in Rows /\ r.timestamp + 1 \in Nat /\ v.t \in Nat /\ v.ep \in Nat
  BY DEF RowInv, Rows, Samples
<1>1. q \in Rows /\ w \in Samples
  <2> DEFINE due == r.outdated \/ r.timestamp + 1 - r.lastUpdate >= p
  <2>1. due \in BOOLEAN
    BY <1>0 DEF Rows
  <2>2. q = [r EXCEPT !.timestamp = r.timestamp + 1, !.outdated = due]
    BY DEF UpdateTimestamp
  <2> HIDE DEF due, q
  <2>3. q \in Rows
    BY <1>0, <2>1, <2>2 DEF Rows
  <2>4. w \in Samples
    BY <1>0 DEF Samples
  <2>5. QED
    BY <2>3, <2>4
<1>2. /\ q.timestamp = r.timestamp + 1 /\ q.lastUpdate = r.lastUpdate
      /\ q.outdated <=> (r.outdated \/ r.timestamp + 1 - r.lastUpdate >= p)
      /\ q.netForces = r.netForces /\ q.history = r.history
      /\ q.contactPos = r.contactPos
  BY DEF RowInv, UpdateTimestamp, Rows
<1>3. r.timestamp \in Nat /\ r.lastUpdate \in Nat /\ v.t \in Nat /\ v.ep \in Nat
  BY DEF RowInv, Rows, Samples
<1>4. HistoryIs(q, S)
  BY <1>2 DEF RowInv, HistoryIs
<1> HIDE DEF q, w
<1>5. w.ep = ep /\ w.t = r.timestamp + 1
  BY <1>3 DEF w, RowInv
<1>6. ~q.outdated => q.timestamp - q.lastUpdate < IF p = 0 THEN 1 ELSE p
  BY <1>2, <1>3
<1>7. RowInv(q, w, S, ep, p)
  BY <1>1, <1>2, <1>3, <1>4, <1>5, <1>6 DEF RowInv
<1>8. QED
  BY <1>7 DEF q, w

\* A reset begins an episode with an empty row, whatever the view holds.
LEMMA ResetKeepsRow ==
  ASSUME NEW r, NEW v, NEW S, NEW ep \in Nat \ {0},
         NEW p \in Nat, RowInv(r, v, S, ep, p)
  PROVE  RowInv(ResetRow, v, {}, ep + 1, p)
<1> DEFINE q == ResetRow
<1>1. 1 \in Steps
  BY HistoryAssumption DEF Steps
<1>2. Zero \in Samples /\ [i \in Steps |-> Zero] \in [Steps -> Samples]
  BY DEF Zero, Samples
<1>3. q = FreshRow
  BY DEF ResetRow
<1> HIDE DEF q
<1>4. q \in Rows
  BY <1>2, <1>3 DEF FreshRow, Rows
<1>5. /\ q.timestamp = 0 /\ q.lastUpdate = 0 /\ q.outdated
      /\ q.netForces = Zero /\ q.history = [i \in Steps |-> Zero]
  BY <1>3 DEF FreshRow
<1>6. HistoryIs(q, {})
  BY <1>1, <1>5 DEF HistoryIs
<1>7. v \in Samples /\ v.ep <= ep /\ v.ep \in Nat
  BY DEF RowInv, Samples
<1>8. Zero.t = 0 /\ 0 \in Times({})
  BY DEF Zero, Times
<1>9. RowInv(q, v, {}, ep + 1, p)
  BY <1>4, <1>5, <1>6, <1>7, <1>8 DEF RowInv
<1>10. QED
  BY <1>9 DEF q

-----------------------------------------------------------------------------
\* The measurement a fill adds to S: the view's, when the row is outdated and
\* the view is of this episode.
Added(r, v, ep) == IF r.outdated /\ v.ep = ep THEN {v} ELSE {}

\* What a fill writes in a row that was stepped, field by field.
LEMMA FilledFields ==
  ASSUME NEW r \in Rows, NEW v \in Samples, r.outdated, r.timestamp > 0
  PROVE  LET q == UpdateOutdatedBuffers(r, v)
             elapsed == r.timestamp - r.lastUpdate
         IN  /\ q \in Rows
             /\ q.timestamp = r.timestamp /\ q.lastUpdate = r.timestamp
             /\ ~q.outdated /\ q.netForces = v /\ q.history = Push(r.history, v)
             /\ q.contactPos = v
             /\ q.cct = (IF v.hit THEN r.cct + elapsed ELSE 0)
             /\ q.cat = (IF v.hit THEN 0 ELSE r.cat + elapsed)
             /\ q.lastAir = (IF v.hit /\ r.cat > 0 THEN r.cat + elapsed ELSE r.lastAir)
             /\ q.lastContact = (IF ~v.hit /\ r.cct > 0 THEN r.cct + elapsed
                                 ELSE r.lastContact)
<1> DEFINE a == [r EXCEPT !.netForces = v, !.history = Push(r.history, v)]
           elapsed == r.timestamp - r.lastUpdate
           air == IF v.hit /\ r.cat > 0 THEN r.cat + elapsed ELSE r.lastAir
           con == IF ~v.hit /\ r.cct > 0 THEN r.cct + elapsed ELSE r.lastContact
           cct == IF v.hit THEN r.cct + elapsed ELSE 0
           cat == IF v.hit THEN 0 ELSE r.cat + elapsed
           c == [a EXCEPT !.lastAir = air, !.lastContact = con,
                          !.cct = cct, !.cat = cat]
           q == UpdateOutdatedBuffers(r, v)
<1>1. /\ r.timestamp \in Nat /\ elapsed \in Int /\ air \in Int /\ con \in Int
      /\ cct \in Int /\ cat \in Int
  BY DEF Rows
<1>2. Push(r.history, v) \in [Steps -> Samples]
  BY HistoryAssumption DEF Push, Rows, Steps
<1>3. a \in Rows
  BY <1>2 DEF Rows
<1>4. AirAndContactTimes(a, v) = c
  BY DEF AirAndContactTimes, Rows
<1>5. r.timestamp # 0
  BY <1>1
<1>6. UpdateNetForces(r, v) = c
  BY <1>4, <1>5 DEF UpdateNetForces
<1>7. q = [[c EXCEPT !.contactPos = v] EXCEPT !.lastUpdate = c.timestamp,
                                              !.outdated = FALSE]
  BY <1>6 DEF UpdateOutdatedBuffers, UpdateBuffers, UnpackContactBuffer,
              ClearOutdated, Rows
<1> HIDE DEF air, con, cct, cat, elapsed
<1>8. c \in Rows /\ c.timestamp = r.timestamp
  BY <1>1, <1>3 DEF Rows
<1>9. q \in Rows
  BY <1>1, <1>7, <1>8 DEF Rows
<1>10. /\ q.timestamp = r.timestamp /\ q.lastUpdate = r.timestamp
       /\ q.outdated = FALSE /\ q.netForces = v /\ q.history = Push(r.history, v)
       /\ q.contactPos = v
       /\ q.cct = cct /\ q.cat = cat /\ q.lastAir = air /\ q.lastContact = con
  BY <1>3, <1>7, <1>8 DEF Rows
<1>11. QED
  BY <1>9, <1>10 DEF air, con, cct, cat, elapsed

\* A row that was not stepped since its reset gets nothing but the contact
\* points: its clocks, forces and timers stay as the reset left them.
LEMMA UnsteppedFields ==
  ASSUME NEW r \in Rows, NEW v \in Samples, r.outdated, r.timestamp = 0
  PROVE  LET q == UpdateOutdatedBuffers(r, v)
         IN  /\ q \in Rows
             /\ q.timestamp = 0 /\ q.lastUpdate = 0 /\ ~q.outdated
             /\ q.netForces = r.netForces /\ q.history = r.history
             /\ q.cct = r.cct /\ q.cat = r.cat
             /\ q.lastAir = r.lastAir /\ q.lastContact = r.lastContact
<1>1. UpdateOutdatedBuffers(r, v)
        = [[r EXCEPT !.contactPos = v] EXCEPT !.lastUpdate = r.timestamp,
                                              !.outdated = FALSE]
  BY DEF UpdateOutdatedBuffers, UpdateBuffers, UnpackContactBuffer,
         UpdateNetForces, ClearOutdated, Rows
<1>2. QED
  BY <1>1 DEF Rows

\* Pushing a newer measurement keeps the history the newest of S.
LEMMA PushKeepsHistory ==
  ASSUME NEW r \in Rows, NEW q \in Rows, NEW S \in SUBSET Samples, NEW v \in Samples,
         HistoryIs(r, S), v.t > 0, \A s \in S : s.t > 0 /\ s.t < v.t,
         q.netForces = v, q.history = Push(r.history, v)
  PROVE  HistoryIs(q, S \cup {v})
<1> DEFINE h == r.history
           g == q.history
<1>1. /\ h \in [Steps -> Samples]
      /\ \A i \in Steps : i \in Nat /\ i >= 1 /\ (i # 1 => i - 1 \in Steps)
      /\ 1 \in Steps
  BY HistoryAssumption DEF Rows, Steps
<1>2. \A i \in Steps : g[i] = IF i = 1 THEN v ELSE h[i - 1]
  BY DEF Push
<1>3. Zero.t = 0 /\ Zero \in Samples
  BY DEF Zero, Samples
<1>4. /\ \A i \in Steps : h[i] = Zero \/ h[i] \in S
      /\ \A i, j \in Steps : i < j /\ h[j] # Zero => h[i].t > h[j].t
      /\ \A s \in S : \/ \E i \in Steps : h[i] = s
                     \/ \A i \in Steps : h[i].t > s.t
  BY DEF HistoryIs
<1>5. \A i \in Steps : h[i].t < v.t /\ h[i].t \in Nat /\ v.t \in Nat
  BY <1>1, <1>3, <1>4 DEF Samples
<1> HIDE DEF h, g
<1>6. \A i \in Steps : g[i] = Zero \/ g[i] \in S \cup {v}
  BY <1>1, <1>2, <1>4
<1>7. ASSUME NEW i \in Steps, NEW j \in Steps, i < j, g[j] # Zero
      PROVE  g[i].t > g[j].t
  <2>1. j # 1 /\ j - 1 \in Steps /\ g[j] = h[j - 1]
    BY <1>1, <1>2, <1>7
  <2>2. CASE i = 1
    BY <1>1, <1>2, <1>5, <2>1, <2>2
  <2>3. CASE i # 1
    <3>1. i - 1 \in Steps /\ i - 1 < j - 1 /\ g[i] = h[i - 1]
      BY <1>1, <1>2, <1>7, <2>3
    <3>2. QED
      BY <1>4, <1>7, <2>1, <3>1
  <2>4. QED
    BY <2>2, <2>3
<1>8. ASSUME NEW s \in S \cup {v}
      PROVE  (\E i \in Steps : g[i] = s) \/ (\A i \in Steps : g[i].t > s.t)
  <2>1. CASE s = v
    BY <1>1, <1>2, <2>1
  <2>2. CASE s \in S /\ \A i \in Steps : h[i].t > s.t
    BY <1>1, <1>2, <2>2
  <2>3. CASE s \in S /\ \E i \in Steps : h[i] = s
    <3>1. PICK k \in Steps : h[k] = s
      BY <2>3
    <3>2. CASE k + 1 \in Steps
      <4>0. k \in Nat /\ k >= 1
        BY HistoryAssumption DEF Steps
      <4>1. k + 1 # 1 /\ (k + 1) - 1 = k
        BY <4>0
      <4>2. g[k + 1] = h[(k + 1) - 1]
        BY <1>2, <3>2, <4>1
      <4>3. g[k + 1] = s
        BY <3>1, <4>1, <4>2
      <4>4. QED
        BY <3>2, <4>3
    <3>3. CASE k + 1 \notin Steps
      <4>1. \A i \in Steps : i <= k
        BY <1>1, <3>1, <3>3, HistoryAssumption DEF Steps
      <4>2. ASSUME NEW i \in Steps PROVE g[i].t > s.t
        <5>1. CASE i = 1
          BY <1>2, <2>3, <5>1
        <5>2. CASE i # 1
          <6>1. i - 1 \in Steps /\ i - 1 < k /\ g[i] = h[i - 1]
            BY <1>1, <1>2, <4>1, <5>2
          <6>2. s # Zero
            BY <1>3, <2>3
          <6>3. QED
            BY <1>4, <3>1, <6>1, <6>2
        <5>3. QED
          BY <5>1, <5>2
      <4>3. QED
        BY <4>2
    <3>4. QED
      BY <3>2, <3>3
  <2>4. QED
    BY <1>4, <2>1, <2>2, <2>3
<1>9. q.netForces = g[1]
  BY <1>1, <1>2
<1>10. QED
  BY <1>6, <1>7, <1>8, <1>9 DEF HistoryIs, g

\* Filling an outdated row keeps its invariant, with the measurement added.
LEMMA FillKeepsRow ==
  ASSUME NEW r, NEW v, NEW S, NEW ep \in Nat \ {0},
         NEW p \in Nat, p = period, RowInv(r, v, S, ep, p)
  PROVE  RowInv(UpdateOutdatedBuffers(r, v), v, S \cup Added(r, v, ep), ep, p)
<1> DEFINE q == UpdateOutdatedBuffers(r, v)
           T == S \cup Added(r, v, ep)
<1>1. r \in Rows /\ v \in Samples /\ S \subseteq Samples
  BY DEF RowInv
<1>2. /\ r.timestamp \in Nat /\ r.lastUpdate \in Nat /\ v.t \in Nat /\ v.ep \in Nat
      /\ \A s \in S : s.t \in Nat
  BY <1>1 DEF Rows, Samples
<1>3. CASE ~r.outdated
  BY <1>3 DEF UpdateOutdatedBuffers, Added
<1>4. CASE r.outdated /\ r.timestamp = 0
  <2>1. v.ep # ep
    BY <1>2, <1>4 DEF RowInv
  <2>2. T = S
    BY <2>1 DEF Added
  <2>3. /\ q \in Rows
        /\ q.timestamp = 0 /\ q.lastUpdate = 0 /\ ~q.outdated
        /\ q.netForces = r.netForces /\ q.history = r.history
    BY <1>1, <1>4, UnsteppedFields
  <2> HIDE DEF q, T
  <2>4. HistoryIs(q, S)
    BY <2>3 DEF HistoryIs, RowInv
  <2>5. r.lastUpdate = 0
    BY <1>2, <1>4 DEF RowInv
  <2>6. q.timestamp - q.lastUpdate < IF p = 0 THEN 1 ELSE p
    BY <2>3
  <2>7. RowInv(q, v, S, ep, p)
    BY <1>2, <1>4, <2>3, <2>4, <2>5, <2>6 DEF RowInv
  <2>8. QED
    BY <2>2, <2>7 DEF q, T
<1>5. CASE r.outdated /\ r.timestamp > 0
  <2>1. v.ep = ep /\ v.t = r.timestamp
    BY <1>5 DEF RowInv
  <2>2. T = S \cup {v}
    BY <1>5, <2>1 DEF Added
  <2>3. /\ q \in Rows
        /\ q.timestamp = r.timestamp /\ q.lastUpdate = r.timestamp /\ ~q.outdated
        /\ q.netForces = v /\ q.contactPos = v /\ q.history = Push(r.history, v)
    BY <1>1, <1>5, FilledFields
  <2>4. \A s \in S : s.t > 0 /\ s.t < v.t /\ s.ep = ep
    BY <1>2, <1>5, <2>1 DEF RowInv
  <2>5. HistoryIs(r, S)
    BY DEF RowInv
  <2> HIDE DEF q
  <2>6. HistoryIs(q, S \cup {v})
    BY <1>1, <1>5, <2>1, <2>3, <2>4, <2>5, PushKeepsHistory
  <2>7. q.lastUpdate \in Times(S \cup {v})
    BY <2>1, <2>3 DEF Times
  <2>8. \A s, u \in S \cup {v} : s.t = u.t => s = u
    BY <1>2, <2>4 DEF RowInv
  <2>9. \A s \in S \cup {v} : s.ep = ep /\ s.t > 0 /\ s.t <= q.lastUpdate
    BY <1>2, <1>5, <2>1, <2>3, <2>4
  <2>10. q.timestamp - q.lastUpdate < IF p = 0 THEN 1 ELSE p
    BY <1>2, <2>3
  <2>11. S \cup {v} \subseteq Samples
    BY <1>1
  <2>12. /\ q.lastUpdate <= q.timestamp /\ v.ep <= ep
         /\ q.timestamp = (IF v.ep = ep THEN v.t ELSE 0) /\ v.t > 0
         /\ q.netForces.t = q.lastUpdate /\ q.contactPos = q.netForces
    BY <1>2, <1>5, <2>1, <2>3
  <2>13. RowInv(q, v, S \cup {v}, ep, p)
    BY <1>1, <2>3, <2>6, <2>7, <2>8, <2>9, <2>10, <2>11, <2>12 DEF RowInv
  <2>14. QED
    BY <2>2, <2>13 DEF q
<1>6. QED
  BY <1>2, <1>3, <1>4, <1>5

-----------------------------------------------------------------------------
\* What a newer measurement v does to the timers of kind b: the current time
\* of v's own kind grows, that of the other kind ends and becomes its last
\* time.
LEMMA NewerMeasurementTimers ==
  ASSUME NEW r \in Rows, NEW q \in Rows, NEW v \in Samples, NEW S \in SUBSET Samples,
         NEW b \in BOOLEAN,
         \A s \in S : s.t > 0 /\ s.t < v.t,
         \A s, u \in S : s.t = u.t => s = u,
         IsLatest(r.lastUpdate, S),
         TimerIs(r, S, b), LastTimerIs(r, S, b),
         Timer(q, b) = IF v.hit = b THEN Timer(r, b) + v.t - r.lastUpdate ELSE 0,
         LastTimer(q, b) = IF v.hit # b /\ Timer(r, b) > 0
                           THEN Timer(r, b) + v.t - r.lastUpdate ELSE LastTimer(r, b)
  PROVE  TimerIs(q, S \cup {v}, b) /\ LastTimerIs(q, S \cup {v}, b)
<1> DEFINE T == S \cup {v}
           L == r.lastUpdate
<1>1. /\ L \in Nat /\ v.t \in Nat /\ v.hit \in BOOLEAN
      /\ \A s \in S : s.t \in Nat /\ s.hit \in BOOLEAN /\ s.t > 0 /\ s.t < v.t
  BY DEF Rows, Samples
<1>2. L \in Times(S) /\ \A s \in S : s.t <= L
  BY DEF IsLatest
<1>3. PICK other \in Times(Of(S, ~b)) :
        IsLatest(other, Of(S, ~b)) /\ Timer(r, b) = L - other
  <2>1. PICK last \in Times(S), other \in Times(Of(S, ~b)) :
          /\ IsLatest(last, S)
          /\ IsLatest(other, Of(S, ~b))
          /\ Timer(r, b) = last - other
    BY DEF TimerIs
  <2>2. last = L
    BY <1>1, <1>2, <2>1 DEF IsLatest, Times
  <2>3. QED
    BY <2>1, <2>2
<1>4. other \in Nat /\ other <= L /\ \A s \in Of(S, ~b) : s.t <= other
  BY <1>1, <1>2, <1>3 DEF IsLatest, Times, Of
<1>5. v.t \in Times(T) /\ IsLatest(v.t, T)
  BY <1>1 DEF IsLatest, Times
<1> SUFFICES TimerIs(q, T, b) /\ LastTimerIs(q, T, b)
  OBVIOUS
<1> HIDE DEF T, L
<1>6. CASE v.hit = b
  <2>1. Of(T, ~b) = Of(S, ~b)
    BY <1>1, <1>6 DEF Of, T
  <2>2. Timer(q, b) = v.t - other
    BY <1>1, <1>3, <1>4, <1>6 DEF L
  <2>3. TimerIs(q, T, b)
    BY <1>3, <1>5, <2>1, <2>2 DEF TimerIs
  <2>4. Ended(T, b) = Ended(S, b)
    BY <1>1, <1>6, <2>1 DEF Ended, Of, T
  <2>5. LastTimer(q, b) = LastTimer(r, b)
    BY <1>6
  <2>6. LastTimerIs(q, T, b)
    BY <2>1, <2>4, <2>5 DEF LastTimerIs
  <2>7. QED
    BY <2>3, <2>6
<1>7. CASE v.hit # b
  <2>1. Of(T, ~b) = Of(S, ~b) \cup {v} /\ Of(T, b) = Of(S, b)
    BY <1>1, <1>7 DEF Of, T
  <2>2. TimerIs(q, T, b)
    <3>1. v.t \in Times(Of(T, ~b)) /\ IsLatest(v.t, Of(T, ~b))
      BY <1>1, <2>1 DEF IsLatest, Times, Of
    <3>2. Timer(q, b) = v.t - v.t
      BY <1>1, <1>7 DEF L
    <3>3. QED
      BY <1>5, <3>1, <3>2 DEF TimerIs
  <2>3. Ended(T, b) = Of(S, b)
    BY <1>1, <2>1 DEF Ended, Of
  <2>4. CASE L = other
    <3>1. LastTimer(q, b) = LastTimer(r, b)
      BY <1>1, <1>3, <2>4
    <3>2. Ended(S, b) = Of(S, b)
      <4>1. ASSUME NEW s \in Of(S, b) PROVE s \in Ended(S, b)
        <5>1. s \in S /\ s.t > 0 /\ s.t <= L
          BY <1>1, <1>2 DEF Of
        <5>2. PICK u \in Of(S, ~b) : u.t = L
          BY <1>1, <2>4, <5>1 DEF Times
        <5>3. u \in S /\ u.hit # s.hit
          BY DEF Of
        <5>4. s.t # L
          BY <5>1, <5>2, <5>3
        <5>5. s.t < L
          BY <1>1, <5>1, <5>4
        <5>6. QED
          BY <5>2, <5>5 DEF Ended
      <4>2. QED
        BY <4>1 DEF Ended
    <3>3. CASE Of(S, b) = {}
      BY <2>2, <2>3, <3>1, <3>2, <3>3 DEF LastTimerIs
    <3>4. CASE Of(S, b) # {}
      <4>1. PICK end \in Ended(S, b), stop \in Of(S, ~b) :
              LET before == {u \in Of(S, ~b) : u.t < end.t}
              IN  /\ \A s \in Ended(S, b) : s.t <= end.t
                  /\ stop.t > end.t
                  /\ \A u \in Of(S, ~b) : u.t > end.t => u.t >= stop.t
                  /\ \E from \in Times(before) :
                       IsLatest(from, before) /\ LastTimer(r, b) = stop.t - from
        BY <3>2, <3>4 DEF LastTimerIs, SpanIs
      <4>2. end \in S /\ stop \in S
        BY DEF Ended, Of
      <4>3. {u \in Of(T, ~b) : u.t < end.t} = {u \in Of(S, ~b) : u.t < end.t}
        <5>1. ~(v.t < end.t)
          BY <1>1, <4>2
        <5>2. QED
          BY <2>1, <5>1
      <4>4. \A u \in Of(T, ~b) : u.t > end.t => u.t >= stop.t
        BY <1>1, <2>1, <4>1, <4>2
      <4>5. stop \in Of(T, ~b) /\ end \in Ended(T, b) /\ Ended(T, b) = Ended(S, b)
        BY <2>1, <2>3, <3>2
      <4>6. SpanIs(LastTimer(r, b), Ended(T, b), Of(T, ~b))
        BY <4>1, <4>3, <4>4, <4>5 DEF SpanIs
      <4>7. LastTimerIs(q, T, b)
        BY <3>1, <4>5, <4>6 DEF LastTimerIs
      <4>8. QED
        BY <2>2, <4>7
    <3>5. QED
      BY <2>2, <3>3, <3>4
  <2>5. CASE L # other
    <3>1. LastTimer(q, b) = v.t - other
      BY <1>1, <1>3, <1>4, <1>7, <2>5 DEF L
    <3>2. PICK end \in S : end.t = L
      BY <1>1, <1>2, <1>4, <2>5 DEF Times
    <3>3. end \notin Of(S, ~b)
      BY <1>1, <1>4, <2>5, <3>2 DEF Of
    <3>4. end \in Ended(T, b)
      BY <1>1, <2>3, <3>3 DEF Of
    <3>5. \A u \in Of(S, ~b) : u.t < end.t /\ ~(u.t > end.t)
      BY <1>1, <1>4, <2>5, <3>2 DEF Of
    <3>6. v \in Of(T, ~b) /\ v.t > end.t /\ ~(v.t < end.t)
      BY <1>1, <2>1
    <3>7. /\ \A u \in Of(T, ~b) : u.t > end.t => u.t >= v.t
          /\ {u \in Of(T, ~b) : u.t < end.t} = Of(S, ~b)
      <4>1. v.t >= v.t
        BY <1>1
      <4>2. QED
        BY <2>1, <3>5, <3>6, <4>1
    <3>8. \A s \in Ended(T, b) : s.t <= end.t
      BY <1>2, <2>3, <3>2 DEF Of
    <3>9. other \in Times(Of(S, ~b)) /\ IsLatest(other, Of(S, ~b))
      BY <1>3
    <3>10. SpanIs(v.t - other, Ended(T, b), Of(T, ~b))
      <4>1. LET before == {u \in Of(T, ~b) : u.t < end.t}
            IN  other \in Times(before) /\ IsLatest(other, before)
        BY <3>7, <3>9
      <4>2. LET before == {u \in Of(T, ~b) : u.t < end.t}
            IN  \E from \in Times(before) :
                  IsLatest(from, before) /\ v.t - other = v.t - from
        BY <4>1
      <4>3. QED
        BY <3>4, <3>6, <3>7, <3>8, <4>2 DEF SpanIs
    <3>11. LastTimerIs(q, T, b)
      BY <3>1, <3>4, <3>10 DEF LastTimerIs
    <3>12. QED
      BY <2>2, <3>11
  <2>6. QED
    BY <2>4, <2>5
<1>8. QED
  BY <1>6, <1>7

\* Filling a row keeps its timers those of the measurements.
LEMMA FillKeepsTimers ==
  ASSUME NEW r, NEW v, NEW S, NEW ep \in Nat \ {0}, NEW p \in Nat,
         NEW b \in BOOLEAN, RowInv(r, v, S, ep, p), TimerIs(r, S, b), LastTimerIs(r, S, b)
  PROVE  LET q == UpdateOutdatedBuffers(r, v)
             T == S \cup Added(r, v, ep)
         IN  TimerIs(q, T, b) /\ LastTimerIs(q, T, b)
<1> DEFINE q == UpdateOutdatedBuffers(r, v)
           T == S \cup Added(r, v, ep)
<1>1. /\ r \in Rows /\ v \in Samples /\ S \in SUBSET Samples
      /\ r.timestamp \in Nat /\ r.lastUpdate \in Nat /\ r.outdated \in BOOLEAN
      /\ r.cat \in Int /\ r.cct \in Int
      /\ \A s \in S : s.t \in Nat
  BY DEF RowInv, Rows, Samples
<1>2. CASE ~r.outdated
  BY <1>2 DEF UpdateOutdatedBuffers, Added
<1>3. CASE r.outdated /\ r.timestamp = 0
  <2>1. v.ep # ep
    BY <1>1, <1>3 DEF RowInv, Samples
  <2>2. T = S
    BY <2>1 DEF Added
  <2>3. /\ q.cct = r.cct /\ q.cat = r.cat
        /\ q.lastAir = r.lastAir /\ q.lastContact = r.lastContact
    BY <1>1, <1>3, UnsteppedFields
  <2> HIDE DEF q, T
  <2>4. Timer(q, b) = Timer(r, b) /\ LastTimer(q, b) = LastTimer(r, b)
    BY <2>3 DEF Timer, LastTimer
  <2>5. TimerIs(q, S, b) /\ LastTimerIs(q, S, b)
    BY <2>4 DEF TimerIs, LastTimerIs
  <2>6. QED
    BY <2>2, <2>5 DEF q, T
<1>4. CASE r.outdated /\ r.timestamp > 0
  <2>1. v.ep = ep /\ v.t = r.timestamp /\ r.lastUpdate < v.t
    BY <1>4 DEF RowInv
  <2>2. T = S \cup {v}
    BY <1>4, <2>1 DEF Added
  <2>3. LET elapsed == r.timestamp - r.lastUpdate
        IN  /\ q \in Rows
            /\ q.cct = (IF v.hit THEN r.cct + elapsed ELSE 0)
            /\ q.cat = (IF v.hit THEN 0 ELSE r.cat + elapsed)
            /\ q.lastAir = (IF v.hit /\ r.cat > 0 THEN r.cat + elapsed
                            ELSE r.lastAir)
            /\ q.lastContact = (IF ~v.hit /\ r.cct > 0 THEN r.cct + elapsed
                                ELSE r.lastContact)
    BY <1>1, <1>4, FilledFields
  <2> HIDE DEF q, T
  <2>4. v.hit \in BOOLEAN /\ v.t \in Nat
    BY <1>1 DEF Samples
  <2>5. Timer(q, b) = IF v.hit = b THEN Timer(r, b) + v.t - r.lastUpdate ELSE 0
    BY <1>1, <2>1, <2>3, <2>4 DEF Timer
  <2>6. LastTimer(q, b) = IF v.hit # b /\ Timer(r, b) > 0
                          THEN Timer(r, b) + v.t - r.lastUpdate ELSE LastTimer(r, b)
    BY <1>1, <2>1, <2>3, <2>4 DEF Timer, LastTimer
  <2>7. \A s \in S : s.t > 0 /\ s.t < v.t
    BY <1>1, <2>1, <2>4 DEF RowInv
  <2>8. /\ \A s, u \in S : s.t = u.t => s = u
        /\ IsLatest(r.lastUpdate, S)
    BY DEF RowInv, IsLatest
  <2>9. TimerIs(q, S \cup {v}, b) /\ LastTimerIs(q, S \cup {v}, b)
    BY <1>1, <2>3, <2>5, <2>6, <2>7, <2>8, NewerMeasurementTimers
  <2>10. QED
    BY <2>2, <2>9 DEF q, T
<1>5. QED
  BY <1>1, <1>2, <1>3, <1>4

-----------------------------------------------------------------------------
(* The state machine *)

\* The rows, the clocks and the histories keep their types and the invariant.
LEMMA IInvInductive == Spec => []IInv
<1>1. Init => IInv
  <2> SUFFICES ASSUME Init PROVE IInv
    OBVIOUS
  <2>1. Zero \in Samples /\ Zero.t = 0 /\ Zero.ep = 0 /\ 1 \in Steps
    BY HistoryAssumption DEF Zero, Samples, Steps
  <2>2. FreshRow \in Rows
    <3>1. [i \in Steps |-> Zero] \in [Steps -> Samples]
      BY <2>1
    <3>2. QED
      BY <2>1, <3>1 DEF FreshRow, Rows
  <2>3. TypeOK
    BY <2>1, <2>2 DEF Init, TypeOK
  <2>4. HistoryIs(FreshRow, {})
    BY <2>1 DEF HistoryIs, FreshRow
  <2>5. RowInv(FreshRow, Zero, {}, 1, period)
    BY <2>1, <2>2, <2>4 DEF RowInv, FreshRow, Times
  <2>6. QED
    BY <2>3, <2>5 DEF IInv, Init
<1>2. IInv /\ [Next]_vars => IInv'
  <2> SUFFICES ASSUME IInv, [Next]_vars PROVE IInv'
    OBVIOUS
  <2>1. /\ period \in Nat /\ period \in Periods /\ lazy \in BOOLEAN
        /\ \A e \in Envs : /\ RowInv(row[e], buf[e], seen[e], episode[e], period)
                           /\ episode[e] \in Nat \ {0}
    BY PeriodAssumption DEF IInv, TypeOK
  <2>2. SUFFICES ASSUME Next
                 PROVE  /\ period' = period /\ lazy' = lazy
                        /\ \A e \in Envs :
                             /\ RowInv(row'[e], buf'[e], seen'[e], episode'[e], period)
                             /\ episode'[e] \in Nat \ {0}
                        /\ row' = [e \in Envs |-> row'[e]]
                        /\ buf' = [e \in Envs |-> buf'[e]]
                        /\ seen' = [e \in Envs |-> seen'[e]]
                        /\ episode' = [e \in Envs |-> episode'[e]]
    <3>1. CASE UNCHANGED vars
      BY <3>1 DEF IInv, TypeOK, vars
    <3>2. CASE /\ period' = period /\ lazy' = lazy
               /\ \A e \in Envs :
                    /\ RowInv(row'[e], buf'[e], seen'[e], episode'[e], period)
                    /\ episode'[e] \in Nat \ {0}
               /\ row' = [e \in Envs |-> row'[e]]
               /\ buf' = [e \in Envs |-> buf'[e]]
               /\ seen' = [e \in Envs |-> seen'[e]]
               /\ episode' = [e \in Envs |-> episode'[e]]
      <4>1. \A e \in Envs : /\ row'[e] \in Rows /\ buf'[e] \in Samples
                            /\ seen'[e] \in SUBSET Samples
        BY <3>2 DEF RowInv
      <4> HIDE DEF Rows, Samples
      <4>2. TypeOK'
        BY <2>1, <3>2, <4>1 DEF TypeOK
      <4>3. QED
        BY <3>2, <4>2 DEF IInv
    <3>3. QED
      BY <3>1, <3>2
  <2> USE DEF Added, Due
  <2>3. CASE \E hits \in SUBSET Envs : PhysicsStep(hits)
    <3>1. PICK hits \in SUBSET Envs : PhysicsStep(hits)
      BY <2>3
    <3> DEFINE w(e) == [ep |-> episode[e],
                        t |-> IF buf[e].ep = episode[e] THEN buf[e].t + 1 ELSE 1,
                        hit |-> e \in hits]
               st(e) == UpdateTimestamp(row[e])
    <3>2. /\ buf' = [e \in Envs |-> w(e)] /\ episode' = episode /\ period' = period
          /\ lazy' = lazy
      BY <3>1 DEF PhysicsStep
    <3>3. ASSUME NEW e \in Envs
          PROVE  RowInv(st(e), w(e), seen[e], episode[e], period)
      <4>1. (e \in hits) \in BOOLEAN
        OBVIOUS
      <4>2. QED
        BY <2>1, <4>1, StampKeepsRow
    <3> HIDE DEF w, st
    <3>4. CASE lazy
      <4>1. row' = [e \in Envs |-> st(e)] /\ seen' = seen
        BY <3>1, <3>4 DEF PhysicsStep, st
      <4>2. \A e \in Envs : /\ row'[e] = st(e) /\ buf'[e] = w(e)
                            /\ seen'[e] = seen[e] /\ episode'[e] = episode[e]
        BY <3>2, <4>1
      <4>3. QED
        BY <2>1, <3>2, <3>3, <4>1, <4>2 DEF IInv, TypeOK
    <3>5. CASE ~lazy
      <4>1. /\ row' = [e \in Envs |-> UpdateOutdatedBuffers(st(e), buf'[e])]
            /\ seen' = [e \in Envs |-> seen[e] \cup Due(st(e), buf'[e], e)]
        BY <3>1, <3>5 DEF PhysicsStep, st
      <4>2. \A e \in Envs : /\ row'[e] = UpdateOutdatedBuffers(st(e), w(e))
                            /\ buf'[e] = w(e) /\ episode'[e] = episode[e]
                            /\ seen'[e] = seen[e] \cup Added(st(e), w(e), episode[e])
        BY <3>2, <4>1
      <4>3. \A e \in Envs :
              RowInv(UpdateOutdatedBuffers(st(e), w(e)), w(e),
                     seen[e] \cup Added(st(e), w(e), episode[e]), episode[e], period)
        BY <2>1, <3>3, FillKeepsRow
      <4>4. QED
        BY <2>1, <3>2, <4>1, <4>2, <4>3 DEF IInv, TypeOK
    <3>6. QED
      BY <2>1, <3>4, <3>5
  <2>4. CASE ReadData
    <3>1. \A e \in Envs :
            RowInv(UpdateOutdatedBuffers(row[e], buf[e]), buf[e],
                   seen[e] \cup Added(row[e], buf[e], episode[e]), episode[e], period)
      BY <2>1, FillKeepsRow
    <3>2. /\ row' = [e \in Envs |-> UpdateOutdatedBuffers(row[e], buf[e])]
          /\ seen' = [e \in Envs |-> seen[e] \cup Added(row[e], buf[e], episode[e])]
          /\ UNCHANGED <<period, lazy, episode, buf>>
      BY <2>4 DEF ReadData
    <3>3. QED
      BY <2>1, <3>1, <3>2 DEF IInv, TypeOK
  <2>5. CASE \E E \in SUBSET Envs \ {{}} : Reset(E)
    <3>1. PICK E \in SUBSET Envs : Reset(E)
      BY <2>5
    <3>2. \A e \in Envs :
            RowInv(ResetRow, buf[e], {}, episode[e] + 1, period)
      BY <2>1, ResetKeepsRow
    <3>3. QED
      BY <2>1, <3>1, <3>2 DEF Reset, IInv, TypeOK
  <2>6. QED
    BY <2>2, <2>3, <2>4, <2>5 DEF Next
<1>3. QED
  BY <1>1, <1>2, PTL DEF Spec

\* The sensor's arrays keep their types: clocks never run backwards below zero.
THEOREM TypeCorrect == Spec => []TypeOK
<1>1. IInv => TypeOK
  BY DEF IInv
<1>2. QED
  BY <1>1, IInvInductive, PTL

\* Whenever the sensor is read and however environments are reset, the net
\* forces and their history are the newest measurements of the present episode
\* (update_net_forces_kernel, reset_contact_sensor_kernel).
THEOREM NothingOfEarlierEpisodes == Spec => []HistoryOfEpisode
<1>1. IInv => HistoryOfEpisode
  <2> SUFFICES ASSUME IInv, NEW e \in Envs
               PROVE  /\ \A s \in seen[e] : s.ep = episode[e] /\ s # Zero
                      /\ HistoryIs(row[e], seen[e])
    BY DEF HistoryOfEpisode
  <2>1. /\ HistoryIs(row[e], seen[e])
        /\ \A s \in seen[e] : s.ep = episode[e] /\ s.t > 0
    BY DEF IInv, RowInv
  <2>2. Zero.t = 0
    BY DEF Zero
  <2>3. QED
    BY <2>1, <2>2
<1>2. QED
  BY <1>1, IInvInductive, PTL

\* A row that is not outdated is less than one update period old
\* (update_timestamp_kernel, update_outdated_envs_kernel).
THEOREM NeverOlderThanThePeriod == Spec => []FreshWhenNotOutdated
<1>1. IInv => FreshWhenNotOutdated
  BY DEF IInv, RowInv, FreshWhenNotOutdated
<1>2. QED
  BY <1>1, IInvInductive, PTL

-----------------------------------------------------------------------------
\* The timers, given the bookkeeping of IInv.
LEMMA TimersInvInductive == Spec => []TimersInv
<1>1. Init => TimersInv
  <2> SUFFICES ASSUME Init, NEW e \in Envs, NEW b \in BOOLEAN
               PROVE  TimerIs(row[e], seen[e], b) /\ LastTimerIs(row[e], seen[e], b)
    BY DEF TimersInv
  <2>1. row[e] = FreshRow /\ seen[e] = {}
    BY DEF Init
  <2>2. TimerIs(FreshRow, {}, b)
    <3>1. Timer(FreshRow, b) = 0
      BY DEF Timer, FreshRow
    <3>2. Of({}, ~b) = {} /\ 0 \in Times({}) /\ IsLatest(0, {})
      BY DEF Of, Times, IsLatest
    <3>3. QED
      BY <3>1, <3>2 DEF TimerIs
  <2>3. LastTimerIs(FreshRow, {}, b)
    BY DEF LastTimerIs, Ended, Of, LastTimer, FreshRow
  <2>4. QED
    BY <2>1, <2>2, <2>3
<1>2. IInv /\ TimersInv /\ [Next]_vars => TimersInv'
  <2> SUFFICES ASSUME IInv, TimersInv, [Next]_vars, NEW e \in Envs, NEW b \in BOOLEAN
               PROVE  TimerIs(row'[e], seen'[e], b) /\ LastTimerIs(row'[e], seen'[e], b)
    BY DEF TimersInv
  <2>1. /\ period \in Nat /\ episode[e] \in Nat \ {0}
        /\ RowInv(row[e], buf[e], seen[e], episode[e], period)
        /\ TimerIs(row[e], seen[e], b) /\ LastTimerIs(row[e], seen[e], b)
    BY PeriodAssumption DEF IInv, TypeOK, TimersInv
  <2>2. CASE \E hits \in SUBSET Envs : PhysicsStep(hits)
    <3>1. PICK hits \in SUBSET Envs : PhysicsStep(hits)
      BY <2>2
    <3> DEFINE w == [ep |-> episode[e],
                     t |-> IF buf[e].ep = episode[e] THEN buf[e].t + 1 ELSE 1,
                     hit |-> e \in hits]
               st == UpdateTimestamp(row[e])
    <3>2. RowInv(st, w, seen[e], episode[e], period)
      <4>1. (e \in hits) \in BOOLEAN
        OBVIOUS
      <4>2. QED
        BY <2>1, <4>1, StampKeepsRow
    <3>3. Timer(st, b) = Timer(row[e], b) /\ LastTimer(st, b) = LastTimer(row[e], b)
      BY <2>1 DEF RowInv, Rows, UpdateTimestamp, Timer, LastTimer
    <3>4. buf'[e] = w
      BY <3>1 DEF PhysicsStep
    <3> HIDE DEF w
    <3>5. CASE lazy
      <4>1. row'[e] = st /\ seen'[e] = seen[e]
        BY <3>1, <3>5 DEF PhysicsStep
      <4> HIDE DEF st
      <4>2. QED
        BY <2>1, <3>3, <4>1 DEF TimerIs, LastTimerIs
    <3>6. CASE ~lazy
      <4>1. /\ row'[e] = UpdateOutdatedBuffers(st, w)
            /\ seen'[e] = seen[e] \cup Added(st, w, episode[e])
        BY <3>1, <3>4, <3>6 DEF PhysicsStep, Added, Due
      <4> HIDE DEF st
      <4>2. TimerIs(st, seen[e], b) /\ LastTimerIs(st, seen[e], b)
        BY <2>1, <3>3 DEF TimerIs, LastTimerIs
      <4>3. LET q == UpdateOutdatedBuffers(st, w)
                T == seen[e] \cup Added(st, w, episode[e])
            IN  TimerIs(q, T, b) /\ LastTimerIs(q, T, b)
        BY <2>1, <3>2, <4>2, FillKeepsTimers
      <4>4. QED
        BY <4>1, <4>3
    <3>7. QED
      BY <3>5, <3>6
  <2>3. CASE ReadData
    <3>1. /\ row'[e] = UpdateOutdatedBuffers(row[e], buf[e])
          /\ seen'[e] = seen[e] \cup Added(row[e], buf[e], episode[e])
      BY <2>3 DEF ReadData, Added, Due
    <3>2. QED
      BY <2>1, <3>1, FillKeepsTimers
  <2>4. CASE \E E \in SUBSET Envs \ {{}} : Reset(E)
    <3>1. PICK E \in SUBSET Envs : Reset(E)
      BY <2>4
    <3>2. CASE e \in E
      <4>1. row'[e] = ResetRow /\ seen'[e] = {}
        BY <3>1, <3>2 DEF Reset
      <4>2. Timer(ResetRow, b) = 0 /\ LastTimer(ResetRow, b) = 0
        BY DEF Timer, LastTimer, ResetRow, FreshRow
      <4>3. Of({}, ~b) = {} /\ 0 \in Times({}) /\ IsLatest(0, {}) /\ Ended({}, b) = {}
        BY DEF Of, Times, IsLatest, Ended
      <4>4. QED
        BY <4>1, <4>2, <4>3 DEF TimerIs, LastTimerIs
    <3>3. CASE e \notin E
      <4>1. row'[e] = row[e] /\ seen'[e] = seen[e]
        BY <3>1, <3>3 DEF Reset
      <4>2. QED
        BY <2>1, <4>1
    <3>4. QED
      BY <3>2, <3>3
  <2>5. CASE UNCHANGED vars
    BY <2>1, <2>5 DEF vars
  <2>6. QED
    BY <2>2, <2>3, <2>4, <2>5 DEF Next
<1>3. QED
  BY <1>1, <1>2, IInvInductive, PTL DEF Spec

\* The current times run since the last measurement of the other kind in this
\* episode, and the last times are those of the latest run that ended in it.
THEOREM TimesCorrect == Spec => []TimesOfEpisode
<1>1. TimersInv => TimesOfEpisode
  BY DEF TimersInv, TimesOfEpisode
<1>2. QED
  BY <1>1, TimersInvInductive, PTL

=============================================================================
