--------------------------- MODULE MimicDatagenProofs ---------------------------
(* Proofs about MimicDatagen for any number of environments, any target, any     *)
(* configuration and any bounds.                                                 *)
EXTENDS MimicDatagen, FiniteSetTheorems, TLAPS

USE DEF exitVars, loopVars, taskVars, queueVars, recVars, countVars

--------------------------------------------------------------------------------
(* Queues as sequences and the sets of their elements *)

\* An empty queue has no elements.
LEMMA ToSetEmpty ==
    ASSUME NEW S, NEW s \in Seq(S), Len(s) = 0
    PROVE  ToSet(s) = {}
<1>1. DOMAIN s = {}
  OBVIOUS
<1> QED
  BY <1>1 DEF ToSet

\* Putting an element on a queue adds it to the queue's elements.
LEMMA ToSetAppend ==
    ASSUME NEW S, NEW s \in Seq(S), NEW e \in S
    PROVE  ToSet(Append(s, e)) = ToSet(s) \cup {e}
<1> DEFINE t == Append(s, e)
<1>1. /\ DOMAIN t = 1 .. Len(s) + 1 /\ DOMAIN s = 1 .. Len(s)
      /\ \A i \in 1 .. Len(s) : t[i] = s[i]
      /\ t[Len(s) + 1] = e
  OBVIOUS
<1>2. ASSUME NEW x PROVE x \in ToSet(t) <=> x \in ToSet(s) \cup {e}
  BY <1>1 DEF ToSet
<1> QED
  BY <1>2

\* Taking the head off a queue leaves the other elements.
LEMMA ToSetHeadTail ==
    ASSUME NEW S, NEW s \in Seq(S), s # <<>>
    PROVE  /\ Head(s) \in S
           /\ ToSet(s) = {Head(s)} \cup ToSet(Tail(s))
<1> DEFINE t == Tail(s)
<1>1. /\ DOMAIN t = 1 .. Len(s) - 1 /\ DOMAIN s = 1 .. Len(s) /\ Len(s) >= 1
      /\ \A i \in 1 .. Len(s) - 1 : t[i] = s[i + 1]
      /\ Head(s) = s[1] /\ s[1] \in S
  OBVIOUS
<1>2. ASSUME NEW x, x \in ToSet(s) PROVE x \in {Head(s)} \cup ToSet(t)
  <2>1. PICK i \in 1 .. Len(s) : x = s[i]
    BY <1>1, <1>2 DEF ToSet
  <2>2. CASE i = 1
    BY <2>1, <2>2, <1>1
  <2>3. CASE i # 1
    <3>1. i - 1 \in 1 .. Len(s) - 1 /\ t[i - 1] = x
      BY <2>1, <2>3, <1>1
    <3> QED
      BY <3>1, <1>1 DEF ToSet
  <2> QED
    BY <2>2, <2>3
<1>3. ASSUME NEW x, x \in ToSet(t) PROVE x \in ToSet(s)
  <2>1. PICK i \in 1 .. Len(s) - 1 : x = t[i]
    BY <1>1, <1>3 DEF ToSet
  <2>2. i + 1 \in 1 .. Len(s) /\ s[i + 1] = x
    BY <2>1, <1>1
  <2> QED
    BY <2>2, <1>1 DEF ToSet
<1>4. Head(s) \in ToSet(s)
  BY <1>1 DEF ToSet
<1> QED
  BY <1>1, <1>2, <1>3, <1>4

\* A queue stays free of duplicates when a new element is put on it.
LEMMA DistinctAppend ==
    ASSUME NEW S, NEW s \in Seq(S), NEW e \in S, Distinct(s), e \notin ToSet(s)
    PROVE  Distinct(Append(s, e))
<1> DEFINE t == Append(s, e)
<1>1. /\ Len(t) = Len(s) + 1 /\ DOMAIN s = 1 .. Len(s)
      /\ \A i \in 1 .. Len(s) : t[i] = s[i]
      /\ t[Len(s) + 1] = e
  OBVIOUS
<1>2. \A i \in 1 .. Len(s) : s[i] # e
  BY <1>1 DEF ToSet
<1> QED
  BY <1>1, <1>2 DEF Distinct

\* Taking the head off a queue without duplicates leaves such a queue, and the head
\* is gone.
LEMMA DistinctTail ==
    ASSUME NEW S, NEW s \in Seq(S), s # <<>>, Distinct(s)
    PROVE  Distinct(Tail(s)) /\ Head(s) \notin ToSet(Tail(s))
<1> DEFINE t == Tail(s)
<1>1. /\ DOMAIN t = 1 .. Len(s) - 1 /\ Len(t) = Len(s) - 1 /\ Len(s) >= 1
      /\ \A i \in 1 .. Len(s) - 1 : t[i] = s[i + 1]
      /\ Head(s) = s[1]
  OBVIOUS
<1>2. Distinct(t)
  BY <1>1 DEF Distinct
<1>3. \A i \in 1 .. Len(s) - 1 : t[i] # s[1]
  BY <1>1 DEF Distinct
<1> QED
  BY <1>1, <1>2, <1>3 DEF ToSet

\* A queue without duplicates has as many elements as entries.
LEMMA DistinctCardinality ==
    ASSUME NEW S, NEW s \in Seq(S), Distinct(s)
    PROVE  IsFiniteSet(ToSet(s)) /\ Cardinality(ToSet(s)) = Len(s)
<1>1. /\ DOMAIN s = 1 .. Len(s) /\ Len(s) \in Nat
      /\ s \in [1 .. Len(s) -> ToSet(s)]
  BY DEF ToSet
<1>2. \A t \in ToSet(s) : \E i \in 1 .. Len(s) : s[i] = t
  BY <1>1 DEF ToSet
<1>3. s \in Bijection(1 .. Len(s), ToSet(s))
  BY <1>1, <1>2 DEF Bijection, Injection, Surjection, IsInjective, Distinct
<1>4. ExistsBijection(1 .. Len(s), ToSet(s))
  BY <1>3 DEF ExistsBijection
<1> QED
  BY <1>1, <1>4, FS_NatBijection, FS_CountingElements

--------------------------------------------------------------------------------
(* The inductive invariant *)

Looping == {"check", "tick", "drain", "gather"}

\* While env_loop runs, unfinished_tasks of each queue counts what is on it, and the
\* action tensor is filled exactly between taking the actions off the queue and
\* the step.
LoopInv ==
    /\ exit = "running" <=> main \in Looping
    /\ exit = "running" =>
         /\ reset_unfinished = Len(env_reset_queue)
         /\ action_unfinished =
              Len(env_action_queue) + (IF main = "gather" THEN NumEnvs ELSE 0)
         /\ actions = IF main = "gather" THEN Envs ELSE {}
    /\ main = "gather" => env_action_queue = <<>>

\* A task that has not begun finds the initial state that main() recorded.  Where an
\* attempt waits for its reset its episode is empty, until env.reset has recorded the
\* initial state.
ResetInv ==
    \A e \in Envs :
      /\ gen[e] \in {"start", "reset"} => episodes[e] = [initial |-> 1, steps |-> 0]
      /\ exit = "running" /\ gen[e] = "resetting" =>
           episodes[e] = IF e \in ToSet(env_reset_queue)
                           THEN EmptyEpisode ELSE [initial |-> 1, steps |-> 0]

IInv ==
    /\ TypeOK /\ LoopInv /\ QueuesMatchTasks
    /\ ResetInv /\ EpisodeIsAttempt /\ BooksBalance

\* The number of environments is a positive natural number.
LEMMA NumEnvsType == NumEnvs \in Nat /\ NumEnvs > 0
  BY EnvsAssumption, FS_CardinalityType, FS_EmptySet DEF NumEnvs

\* The initial state satisfies every part of the invariant.
LEMMA InitIInv == Init => IInv
<1> SUFFICES ASSUME Init PROVE IInv
  OBVIOUS
<1> USE DEF Init
<1>1. ToSet(<<>>) = {}
  BY DEF ToSet
<1>2. TypeOK
  <2>1. datagen_config \in DatagenConfig
    BY ConfigsAssumption
  <2>2. env_reset_queue \in Seq(Envs) /\ env_action_queue \in Seq(Envs)
    OBVIOUS
  <2>3. exported \in Tally /\ file \in Tally
    BY DEF Tally
  <2>4. episodes \in [Envs -> [initial : Nat, steps : Nat]]
    OBVIOUS
  <2> QED
    BY <2>1, <2>2, <2>3, <2>4 DEF TypeOK, Ready
<1>3. LoopInv
  BY DEF LoopInv, Looping
<1>4. QueuesMatchTasks
  BY <1>1 DEF QueuesMatchTasks, Distinct, ActingEnvs
<1>5. ResetInv /\ EpisodeIsAttempt
  BY <1>1 DEF ResetInv, EpisodeIsAttempt
<1>6. BooksBalance
  BY DEF BooksBalance
<1> QED
  BY <1>2, <1>3, <1>4, <1>5, <1>6 DEF IInv

--------------------------------------------------------------------------------
(* Types *)

\* Recording one more step of an episode.
LEMMA RecordedStep ==
    ASSUME NEW r \in [initial : Nat, steps : Nat]
    PROVE  /\ [r EXCEPT !.steps = @ + 1] \in [initial : Nat, steps : Nat]
           /\ [r EXCEPT !.steps = @ + 1] = [initial |-> r.initial, steps |-> r.steps + 1]
  OBVIOUS

\* What the head of generate() leaves behind is well-typed.
LEMMA BeginAttemptType ==
    ASSUME TypeOK, NEW e \in Envs, BeginAttempt(e)
    PROVE  /\ gen' \in [Envs -> Waiting \cup Ready \cup Finished]
           /\ episodes' \in [Envs -> [initial : Nat, steps : Nat]]
           /\ env_reset_queue' \in Seq(Envs) /\ reset_unfinished' \in Nat
           /\ env_action_queue' \in Seq(Envs) /\ action_unfinished' \in Nat
           /\ actions' \in SUBSET Envs
<1> USE DEF BeginAttempt, TypeOK
<1>1. EmptyEpisode \in [initial : Nat, steps : Nat]
  BY DEF EmptyEpisode
<1> QED
  BY <1>1 DEF Waiting

\* Exporting an episode leaves the tallies well-typed.
LEMMA ExportEpisodeType ==
    ASSUME TypeOK, NEW e \in Envs, NEW success \in BOOLEAN, ExportEpisode(e, success)
    PROVE  exported' \in Tally /\ file' \in Tally
<1>1. ASSUME NEW t \in Tally
      PROVE  /\ [t EXCEPT !.succeeded = @ + 1] \in Tally
             /\ [t EXCEPT !.failed = @ + 1] \in Tally
  BY DEF Tally
<1>2. exported \in Tally /\ file \in Tally
  BY DEF TypeOK
<1>3. CASE IsEmpty(episodes[e])
  BY <1>2, <1>3 DEF ExportEpisode
<1>4. CASE ~IsEmpty(episodes[e]) /\ success
  BY <1>1, <1>2, <1>4 DEF ExportEpisode
<1>5. CASE ~IsEmpty(episodes[e]) /\ ~success
  BY <1>1, <1>2, <1>5 DEF ExportEpisode
<1> QED
  BY <1>3, <1>4, <1>5

\* Every step preserves TypeOK; the two unfinished counters never go below zero
\* because they count what is on the queues.
LEMMA TypeStep == TypeOK /\ LoopInv /\ [Next]_vars => TypeOK'
<1> SUFFICES ASSUME TypeOK, LoopInv, [Next]_vars PROVE TypeOK'
  OBVIOUS
<1> USE NumEnvsType DEF TypeOK, Ready, Waiting, Finished, Tally
<1>1. ASSUME NEW e \in Envs, StartTask(e) PROVE TypeOK'
  BY <1>1 DEF StartTask, BeginAttempt, Resumes, EmptyEpisode
<1>2. ASSUME NEW e \in Envs, ResumeAfterReset(e) PROVE TypeOK'
  BY <1>2 DEF ResumeAfterReset, Resumes
<1>3. ASSUME NEW e \in Envs, PlanWaypoints(e) PROVE TypeOK'
  BY <1>3 DEF PlanWaypoints, Resumes
<1>4. ASSUME NEW e \in Envs, PlanningFails(e) PROVE TypeOK'
  <2>1. BeginAttempt(e)
    BY <1>4 DEF PlanningFails
  <2>2. num_failures' \in Nat /\ num_attempts' \in Nat /\ aborted' \in Nat
    <3>1. CASE num_failures < MaxFailures
      BY <1>4, <3>1 DEF PlanningFails
    <3>2. CASE ~(num_failures < MaxFailures)
      BY <1>4, <3>2 DEF PlanningFails
    <3> QED
      BY <3>1, <3>2
  <2> QED
    BY <1>4, <2>1, <2>2, BeginAttemptType DEF PlanningFails, Resumes
<1>5. ASSUME NEW e \in Envs, PutAction(e) PROVE TypeOK'
  BY <1>5 DEF PutAction, Resumes
<1>6. ASSUME NEW e \in Envs, NEW ok \in BOOLEAN, ContinueAttempt(e, ok) PROVE TypeOK'
  BY <1>6 DEF ContinueAttempt, Resumes
<1>7. ASSUME NEW e \in Envs, NEW ok \in BOOLEAN, FinishAttempt(e, ok) PROVE TypeOK'
  <2> DEFINE success == generated_success[e] \/ ok
  <2>1. BeginAttempt(e) /\ ExportEpisode(e, success) /\ success \in BOOLEAN
    BY <1>7 DEF FinishAttempt
  <2>2. exported' \in Tally /\ file' \in Tally
    BY <2>1, ExportEpisodeType
  <2>3. /\ num_success' \in Nat /\ num_failures' \in Nat /\ num_attempts' \in Nat
        /\ due' \in SUBSET Envs
        /\ generated_success' \in [Envs -> BOOLEAN]
    BY <1>7 DEF FinishAttempt, Resumes
  <2> QED
    BY <1>7, <2>1, <2>2, <2>3, BeginAttemptType DEF FinishAttempt, Resumes
<1>8. ASSUME NEW e \in Envs, NEW at \in Ready, TaskRaises(e, at)
      PROVE TypeOK'
  BY <1>8 DEF TaskRaises, Resumes
<1>9. ASSUME NEW e \in Envs, GatherNotices(e) PROVE TypeOK'
  BY <1>9 DEF GatherNotices
<1>10. ASSUME NEW e \in Envs, TaskCancelled(e) PROVE TypeOK'
  BY <1>10 DEF TaskCancelled
<1>11. CASE RunTasks
  BY <1>11 DEF RunTasks, Runnable
<1>12. CASE TasksRan
  BY <1>12 DEF TasksRan, LeaveLoop, Runnable
<1>13. CASE ResetEnv
  <2> DEFINE e == Head(env_reset_queue)
  <2>1. /\ e \in Envs /\ env_reset_queue' \in Seq(Envs)
        /\ Len(env_reset_queue) \in Nat /\ Len(env_reset_queue) > 0
    BY <1>13 DEF ResetEnv
  <2>2. exported' \in Tally /\ file' \in Tally
    BY <1>13, <2>1, ExportEpisodeType DEF ResetEnv
  <2>3. reset_unfinished' \in Nat
    BY <1>13, <2>1 DEF ResetEnv, LoopInv, Looping
  <2>4. gen' \in [Envs -> Waiting \cup Ready \cup Finished]
    BY <1>13 DEF ResetEnv, WakeIf
  <2>5. episodes' \in [Envs -> [initial : Nat, steps : Nat]]
    BY <1>13, <2>1 DEF ResetEnv
  <2> QED
    BY <1>13, <2>1, <2>2, <2>3, <2>4, <2>5 DEF ResetEnv
<1>14. CASE ResetsDone
  BY <1>14 DEF ResetsDone
<1>15. CASE GetActions
  BY <1>15 DEF GetActions, ToSet
<1>16. ASSUME NEW is_stopped \in BOOLEAN, StepEnv(is_stopped) PROVE TypeOK'
  <2>1. action_unfinished' \in Nat
    BY <1>16 DEF StepEnv, LoopInv, Looping
  <2>2. gen' \in [Envs -> Waiting \cup Ready \cup Finished]
    BY <1>16 DEF StepEnv, WakeIf
  <2>3. episodes' \in [Envs -> [initial : Nat, steps : Nat]]
    <3>1. episodes \in [Envs -> [initial : Nat, steps : Nat]]
      BY DEF TypeOK
    <3> QED
      BY <1>16, <3>1, RecordedStep DEF StepEnv
  <2>4. /\ main' \in {"cleanup", "check"}
        /\ exit' \in {exit, "target", "stopped"} /\ cancel' \in BOOLEAN
        /\ due' \in SUBSET Envs
    BY <1>16 DEF StepEnv, LeaveLoop, Runnable
  <2> QED
    BY <1>16, <2>1, <2>2, <2>3, <2>4 DEF StepEnv
<1>17. CASE EnvRaises
  BY <1>17 DEF EnvRaises, LeaveLoop, Runnable
<1>18. CASE CloseEnv
  BY <1>18 DEF CloseEnv
<1>19. CASE UNCHANGED vars
  BY <1>19 DEF vars
<1> QED
  BY <1>1, <1>2, <1>3, <1>4, <1>5, <1>6, <1>7, <1>8, <1>9, <1>10, <1>11, <1>12,
     <1>13, <1>14, <1>15, <1>16, <1>17, <1>18, <1>19
     DEF Next, EnvLoopStep, GeneratorStep, Terminated

--------------------------------------------------------------------------------
(* Lock-step *)

Lock == LoopInv /\ QueuesMatchTasks

\* A task that is not in a join and moves without touching the queues disturbs
\* nothing.
LEMMA TaskMovesLock ==
    ASSUME TypeOK, Lock, NEW e \in Envs, gen[e] \notin Waiting,
           NEW to, to \notin Waiting, gen' = [gen EXCEPT ![e] = to],
           UNCHANGED <<exit, main, queueVars>>
    PROVE  Lock'
<1>1. ActingEnvs' = ActingEnvs
  BY DEF ActingEnvs, Waiting, TypeOK
<1>2. \A f \in Envs : gen[f] = "resetting" => gen'[f] = "resetting"
  BY DEF Waiting, TypeOK
<1>3. ToSet(env_reset_queue) \subseteq Envs
  BY DEF ToSet, TypeOK
<1> QED
  BY <1>1, <1>2, <1>3 DEF Lock, LoopInv, QueuesMatchTasks, Distinct

\* Asking for a reset puts the environment on the reset queue as its task starts
\* to wait for it.
LEMMA BeginAttemptLock ==
    ASSUME TypeOK, Lock, NEW e \in Envs, gen[e] \notin Waiting,
           BeginAttempt(e), UNCHANGED <<exit, main>>
    PROVE  Lock'
<1>1. ActingEnvs' = ActingEnvs
  BY DEF ActingEnvs, Waiting, TypeOK, BeginAttempt
<1>2. env_reset_queue \in Seq(Envs) /\ ToSet(env_reset_queue) \subseteq Envs
  BY DEF ToSet, TypeOK
<1>3. /\ ToSet(env_reset_queue') = ToSet(env_reset_queue) \cup {e}
      /\ Len(env_reset_queue') = Len(env_reset_queue) + 1
  BY <1>2, ToSetAppend DEF BeginAttempt
<1>4. LoopInv'
  BY <1>3 DEF Lock, LoopInv, BeginAttempt
<1>5. ASSUME exit = "running" PROVE Distinct(env_reset_queue')
  <2>1. e \notin ToSet(env_reset_queue)
    BY <1>5 DEF Lock, QueuesMatchTasks, Waiting
  <2> QED
    BY <1>2, <1>5, <2>1, DistinctAppend DEF Lock, QueuesMatchTasks, BeginAttempt
<1>6. ASSUME exit = "running" PROVE \A f \in ToSet(env_reset_queue') : gen'[f] = "resetting"
  BY <1>2, <1>3, <1>6 DEF Lock, QueuesMatchTasks, BeginAttempt, TypeOK
<1>7. QueuesMatchTasks'
  BY <1>1, <1>5, <1>6 DEF Lock, QueuesMatchTasks, BeginAttempt, Distinct
<1> QED
  BY <1>4, <1>7 DEF Lock

\* While the tensor is filled every task waits for the step.
LEMMA GatherIsFull ==
    ASSUME Lock, main = "gather"
    PROVE  /\ exit = "running" /\ actions = Envs /\ env_action_queue = <<>>
           /\ \A e \in Envs : gen[e] = "acting"
<1>1. exit = "running" /\ actions = Envs /\ env_action_queue = <<>>
  BY DEF Lock, LoopInv, Looping
<1>2. ToSet(<<>>) = {}
  BY DEF ToSet
<1>3. ActingEnvs = Envs
  BY <1>1, <1>2 DEF Lock, QueuesMatchTasks
<1> QED
  BY <1>1, <1>3 DEF ActingEnvs

\* Handing over an action puts it on the queue as the task starts to wait.
LEMMA PutActionLock ==
    ASSUME TypeOK, Lock, NEW e \in Envs, PutAction(e)
    PROVE  Lock'
<1>1. /\ gen[e] = "act" /\ gen' = [gen EXCEPT ![e] = "acting"]
      /\ env_action_queue' = Append(env_action_queue, e)
      /\ action_unfinished' = action_unfinished + 1
      /\ UNCHANGED <<exit, main, actions, env_reset_queue, reset_unfinished>>
  BY DEF PutAction, Resumes
<1>2. /\ env_action_queue \in Seq(Envs) /\ ToSet(env_reset_queue) \subseteq Envs
      /\ action_unfinished \in Nat
  BY DEF ToSet, TypeOK
<1>3. /\ ToSet(env_action_queue') = ToSet(env_action_queue) \cup {e}
      /\ Len(env_action_queue') = Len(env_action_queue) + 1
      /\ Len(env_action_queue) \in Nat
  BY <1>1, <1>2, ToSetAppend
<1>4. ActingEnvs' = ActingEnvs \cup {e}
  BY <1>1 DEF ActingEnvs, TypeOK
<1>5. main # "gather"
  BY <1>1, GatherIsFull
<1>6. LoopInv'
  BY <1>1, <1>2, <1>3, <1>5 DEF Lock, LoopInv
<1>7. ASSUME exit = "running" PROVE Distinct(env_action_queue')
  <2>1. e \notin ToSet(env_action_queue)
    BY <1>1, <1>7 DEF Lock, QueuesMatchTasks, ActingEnvs
  <2> QED
    BY <1>1, <1>2, <1>7, <2>1, DistinctAppend DEF Lock, QueuesMatchTasks
<1>8. ASSUME exit = "running" PROVE \A f \in ToSet(env_reset_queue') : gen'[f] = "resetting"
  BY <1>1, <1>2, <1>8 DEF Lock, QueuesMatchTasks, TypeOK
<1>9. QueuesMatchTasks'
  BY <1>1, <1>3, <1>4, <1>7, <1>8 DEF Lock, QueuesMatchTasks, Distinct
<1> QED
  BY <1>6, <1>9 DEF Lock

\* Serving a reset request takes it off the queue; the last one wakes everyone who
\* waits for a reset.
LEMMA ResetEnvLock ==
    ASSUME TypeOK, Lock, ResetEnv
    PROVE  Lock'
<1> DEFINE e == Head(env_reset_queue)
           rest == Tail(env_reset_queue)
<1>1. /\ main = "drain" /\ env_reset_queue # <<>> /\ env_reset_queue' = rest
      /\ reset_unfinished' = reset_unfinished - 1
      /\ WakeIf(reset_unfinished = 1, "resetting", "reset")
      /\ UNCHANGED <<exit, main, env_action_queue, action_unfinished, actions>>
  BY DEF ResetEnv
<1>2. env_reset_queue \in Seq(Envs) /\ ToSet(env_reset_queue) \subseteq Envs
  BY DEF ToSet, TypeOK
<1>3. /\ exit = "running" /\ reset_unfinished = Len(env_reset_queue)
      /\ Distinct(env_reset_queue)
  BY <1>1 DEF Lock, LoopInv, Looping, QueuesMatchTasks
<1>4. /\ ToSet(env_reset_queue) = {e} \cup ToSet(rest)
      /\ Len(rest) = Len(env_reset_queue) - 1 /\ Len(env_reset_queue) > 0
      /\ Distinct(rest)
  BY <1>1, <1>2, <1>3, ToSetHeadTail, DistinctTail
<1>5. ActingEnvs' = ActingEnvs
  BY <1>1 DEF ActingEnvs, WakeIf, TypeOK
<1>6. LoopInv'
  BY <1>1, <1>3, <1>4 DEF Lock, LoopInv
<1>7. \A f \in ToSet(rest) : gen'[f] = "resetting"
  <2>1. CASE reset_unfinished = 1
    <3>1. rest \in Seq(Envs) /\ Len(rest) = 0
      BY <1>1, <1>2, <1>3, <1>4, <2>1
    <3> QED
      BY <3>1, ToSetEmpty
  <2>2. CASE reset_unfinished # 1
    BY <1>1, <1>2, <1>3, <1>4, <2>2 DEF WakeIf, Lock, QueuesMatchTasks
  <2> QED
    BY <2>1, <2>2
<1>8. QueuesMatchTasks'
  BY <1>1, <1>3, <1>4, <1>5, <1>7 DEF Lock, QueuesMatchTasks, Distinct
<1> QED
  BY <1>6, <1>8 DEF Lock

\* qsize() == num_envs means that there is one action of every environment.
LEMMA GetActionsLock ==
    ASSUME TypeOK, Lock, GetActions
    PROVE  Lock'
<1>1. /\ main = "check" /\ main' = "gather" /\ Len(env_action_queue) = NumEnvs
      /\ actions' = ToSet(env_action_queue) /\ env_action_queue' = <<>>
      /\ UNCHANGED <<exit, gen, env_reset_queue, reset_unfinished, action_unfinished>>
  BY DEF GetActions
<1>2. exit = "running" /\ Distinct(env_action_queue) /\ actions = {}
  BY <1>1 DEF Lock, LoopInv, Looping, QueuesMatchTasks
<1>3. env_action_queue \in Seq(Envs) /\ ToSet(env_action_queue) \in SUBSET Envs
  BY DEF ToSet, TypeOK
<1>4. Cardinality(ToSet(env_action_queue)) = Cardinality(Envs)
  BY <1>1, <1>2, <1>3, DistinctCardinality DEF NumEnvs
<1>5. ToSet(env_action_queue) = Envs
  BY <1>3, <1>4, EnvsAssumption, FS_Subset
<1>6. ToSet(<<>>) = {} /\ Len(<<>>) = 0
  BY DEF ToSet
<1>7. LoopInv'
  BY <1>1, <1>2, <1>5, <1>6, NumEnvsType DEF Lock, LoopInv, Looping
<1>8. QueuesMatchTasks'
  BY <1>1, <1>2, <1>5, <1>6 DEF Lock, QueuesMatchTasks, ActingEnvs, Distinct
<1> QED
  BY <1>7, <1>8 DEF Lock

\* The joint step uses every action up and wakes every task.
LEMMA StepEnvLock ==
    ASSUME TypeOK, Lock, NEW is_stopped \in BOOLEAN, StepEnv(is_stopped)
    PROVE  Lock' /\ gen' = [e \in Envs |-> "acted"]
<1>1. /\ main = "gather" /\ actions' = {} /\ action_unfinished' = action_unfinished - NumEnvs
      /\ WakeIf(action_unfinished = NumEnvs, "acting", "acted")
      /\ UNCHANGED <<env_reset_queue, reset_unfinished, env_action_queue>>
      /\ \/ main' = "check" /\ exit' = exit
         \/ main' = "cleanup" /\ exit' \in {"target", "stopped"}
  BY DEF StepEnv, LeaveLoop
<1>2. /\ exit = "running" /\ env_action_queue = <<>>
      /\ \A e \in Envs : gen[e] = "acting"
  BY <1>1, GatherIsFull
<1>3. Len(<<>>) = 0 /\ ToSet(<<>>) = {}
  BY DEF ToSet
<1>4. action_unfinished = NumEnvs
  BY <1>1, <1>2, <1>3, NumEnvsType DEF Lock, LoopInv
<1>5. gen' = [e \in Envs |-> "acted"]
  BY <1>1, <1>2, <1>4 DEF WakeIf
<1>6. LoopInv'
  BY <1>1, <1>2, <1>3, <1>4, NumEnvsType DEF Lock, LoopInv, Looping
<1>7. ToSet(env_reset_queue) = {}
  <2>1. ToSet(env_reset_queue) \subseteq Envs
    BY DEF ToSet, TypeOK
  <2>2. \A f \in ToSet(env_reset_queue) : gen[f] = "resetting"
    BY <1>2 DEF Lock, QueuesMatchTasks
  <2> QED
    BY <1>2, <2>1, <2>2
<1>8. QueuesMatchTasks'
  BY <1>1, <1>2, <1>3, <1>5, <1>7 DEF Lock, QueuesMatchTasks, ActingEnvs, Distinct
<1> QED
  BY <1>5, <1>6, <1>8 DEF Lock

\* Every step preserves the lock-step invariant.
LEMMA LockStep == TypeOK /\ Lock /\ [Next]_vars => Lock'
<1> SUFFICES ASSUME TypeOK, Lock, [Next]_vars PROVE Lock'
  OBVIOUS
<1>1. ASSUME NEW e \in Envs, StartTask(e) PROVE Lock'
  BY <1>1, BeginAttemptLock DEF StartTask, Resumes, Waiting
<1>2. ASSUME NEW e \in Envs, ResumeAfterReset(e) PROVE Lock'
  BY <1>2, TaskMovesLock DEF ResumeAfterReset, Resumes, Waiting
<1>3. ASSUME NEW e \in Envs, PlanWaypoints(e) PROVE Lock'
  BY <1>3, TaskMovesLock DEF PlanWaypoints, Resumes, Waiting
<1>4. ASSUME NEW e \in Envs, PlanningFails(e) PROVE Lock'
  BY <1>4, BeginAttemptLock DEF PlanningFails, Resumes, Waiting
<1>5. ASSUME NEW e \in Envs, PutAction(e) PROVE Lock'
  BY <1>5, PutActionLock
<1>6. ASSUME NEW e \in Envs, NEW ok \in BOOLEAN, ContinueAttempt(e, ok) PROVE Lock'
  BY <1>6, TaskMovesLock DEF ContinueAttempt, Resumes, Waiting
<1>7. ASSUME NEW e \in Envs, NEW ok \in BOOLEAN, FinishAttempt(e, ok) PROVE Lock'
  BY <1>7, BeginAttemptLock DEF FinishAttempt, Resumes, Waiting
<1>8. ASSUME NEW e \in Envs, NEW at \in Ready, TaskRaises(e, at)
      PROVE Lock'
  BY <1>8, TaskMovesLock DEF TaskRaises, Resumes, Ready, Waiting
<1>9. ASSUME NEW e \in Envs, GatherNotices(e) PROVE Lock'
  BY <1>9, TaskMovesLock DEF GatherNotices, Waiting
<1>10. ASSUME NEW e \in Envs, TaskCancelled(e) PROVE Lock'
  <2>1. main = "cleanup" /\ UNCHANGED <<exit, main>>
    BY <1>10 DEF TaskCancelled
  <2>2. exit # "running"
    BY <2>1 DEF Lock, LoopInv, Looping
  <2> QED
    BY <2>1, <2>2 DEF Lock, LoopInv, QueuesMatchTasks, Looping
<1>11. CASE RunTasks
  BY <1>11 DEF RunTasks, Lock, LoopInv, Looping, QueuesMatchTasks, Distinct, ActingEnvs
<1>12. CASE TasksRan
  <2>1. CASE \E e \in Envs : gen[e] = "failed"
    BY <1>12, <2>1 DEF TasksRan, LeaveLoop, Lock, LoopInv, Looping, QueuesMatchTasks
  <2>2. CASE ~\E e \in Envs : gen[e] = "failed"
    BY <1>12, <2>2 DEF TasksRan, Lock, LoopInv, Looping, QueuesMatchTasks, Distinct, ActingEnvs
  <2> QED
    BY <2>1, <2>2
<1>13. CASE ResetEnv
  BY <1>13, ResetEnvLock
<1>14. CASE ResetsDone
  BY <1>14 DEF ResetsDone, Lock, LoopInv, Looping, QueuesMatchTasks, Distinct, ActingEnvs
<1>15. CASE GetActions
  BY <1>15, GetActionsLock
<1>16. ASSUME NEW is_stopped \in BOOLEAN, StepEnv(is_stopped) PROVE Lock'
  BY <1>16, StepEnvLock
<1>17. CASE EnvRaises
  BY <1>17 DEF EnvRaises, LeaveLoop, Lock, LoopInv, Looping, QueuesMatchTasks
<1>18. CASE CloseEnv
  BY <1>18 DEF CloseEnv, Lock, LoopInv, Looping, QueuesMatchTasks
<1>19. CASE UNCHANGED vars
  BY <1>19 DEF vars, Lock, LoopInv, QueuesMatchTasks, Distinct, ActingEnvs
<1> QED
  BY <1>1, <1>2, <1>3, <1>4, <1>5, <1>6, <1>7, <1>8, <1>9, <1>10, <1>11, <1>12,
     <1>13, <1>14, <1>15, <1>16, <1>17, <1>18, <1>19
     DEF Next, EnvLoopStep, GeneratorStep, Terminated

--------------------------------------------------------------------------------
(* Episodes *)

Fresh == [initial |-> 1, steps |-> 0]
Recorded == ResetInv /\ EpisodeIsAttempt

\* A task that ends, or moves on without a change to its episode or the count of its
\* actions, leaves the episodes in order.
LEMMA TaskMovesRecorded ==
    ASSUME TypeOK, Lock, Recorded, NEW e \in Envs, NEW to,
           gen' = [gen EXCEPT ![e] = to],
           \/ to \in Finished
           \/ /\ gen[e] \in {"plan", "acted"} /\ to \in {"plan", "act"},
           UNCHANGED <<exit, episodes, waypoints, env_reset_queue>>
    PROVE  Recorded'
  BY DEF Recorded, ResetInv, EpisodeIsAttempt, Finished, TypeOK

\* Asking for a reset comes with an empty episode.
LEMMA BeginAttemptRecorded ==
    ASSUME TypeOK, Lock, Recorded, NEW e \in Envs, gen[e] \notin Waiting,
           BeginAttempt(e), UNCHANGED <<exit, waypoints>>
    PROVE  Recorded'
<1>1. /\ gen' = [gen EXCEPT ![e] = "resetting"]
      /\ episodes' = [episodes EXCEPT ![e] = EmptyEpisode]
      /\ ToSet(env_reset_queue') = ToSet(env_reset_queue) \cup {e}
  BY ToSetAppend DEF BeginAttempt, TypeOK
<1>2. ResetInv'
  BY <1>1 DEF Recorded, ResetInv, TypeOK
<1>3. EpisodeIsAttempt'
  BY <1>1 DEF Recorded, EpisodeIsAttempt, TypeOK
<1> QED
  BY <1>2, <1>3 DEF Recorded

\* env.reset gives the environment a fresh episode, and everybody has one when the
\* last request is served.
LEMMA ResetEnvRecorded ==
    ASSUME TypeOK, Lock, Recorded, ResetEnv
    PROVE  Recorded'
<1> DEFINE e == Head(env_reset_queue)
           rest == Tail(env_reset_queue)
<1>1. /\ main = "drain" /\ env_reset_queue # <<>> /\ env_reset_queue' = rest
      /\ episodes' = [episodes EXCEPT ![e] = Fresh]
      /\ gen' = [f \in Envs |-> IF reset_unfinished = 1 /\ gen[f] = "resetting"
                                 THEN "reset" ELSE gen[f]]
      /\ UNCHANGED <<exit, waypoints>>
  BY DEF ResetEnv, WakeIf, Fresh
<1>2. /\ exit = "running" /\ reset_unfinished = Len(env_reset_queue)
      /\ Distinct(env_reset_queue)
      /\ \A f \in ToSet(env_reset_queue) : gen[f] = "resetting"
  BY <1>1 DEF Lock, LoopInv, Looping, QueuesMatchTasks
<1>3. /\ env_reset_queue \in Seq(Envs) /\ e \in Envs
      /\ ToSet(env_reset_queue) = {e} \cup ToSet(rest)
      /\ e \notin ToSet(rest) /\ rest \in Seq(Envs)
      /\ Len(rest) = Len(env_reset_queue) - 1
  BY <1>1, <1>2, ToSetHeadTail, DistinctTail DEF TypeOK
<1>4. gen[e] = "resetting"
  BY <1>2, <1>3
<1>5. ASSUME reset_unfinished = 1 PROVE ToSet(rest) = {}
  <2>1. Len(rest) = 0
    BY <1>2, <1>3, <1>5
  <2> QED
    BY <1>3, <2>1, ToSetEmpty
<1>6. /\ episodes' \in [Envs -> [initial : Nat, steps : Nat]]
      /\ episodes'[e] = Fresh
      /\ \A f \in Envs \ {e} : episodes'[f] = episodes[f]
  BY <1>1, <1>3 DEF TypeOK, Fresh
<1>7. ASSUME NEW f \in Envs, gen[f] = "resetting"
      PROVE  episodes'[f] = IF f \in ToSet(rest) THEN EmptyEpisode ELSE Fresh
  BY <1>2, <1>3, <1>6, <1>7 DEF Recorded, ResetInv, Fresh
<1>8. ASSUME NEW f \in Envs, gen'[f] \in {"start", "reset"} PROVE episodes'[f] = Fresh
  <2>1. CASE gen[f] = "resetting"
    BY <1>1, <1>5, <1>7, <1>8, <2>1
  <2>2. CASE gen[f] # "resetting"
    BY <1>1, <1>4, <1>6, <1>8, <2>2 DEF Recorded, ResetInv, Fresh
  <2> QED
    BY <2>1, <2>2
<1>9. ResetInv'
  BY <1>1, <1>7, <1>8 DEF ResetInv, Fresh
<1>10. EpisodeIsAttempt'
  BY <1>1, <1>4, <1>6 DEF Recorded, EpisodeIsAttempt
<1> QED
  BY <1>9, <1>10 DEF Recorded

\* Every step keeps the recorded episodes in step with the attempts.
LEMMA RecordedNext == TypeOK /\ Lock /\ Recorded /\ [Next]_vars => Recorded'
<1> SUFFICES ASSUME TypeOK, Lock, Recorded, [Next]_vars PROVE Recorded'
  OBVIOUS
<1>1. ASSUME NEW e \in Envs, StartTask(e) PROVE Recorded'
  BY <1>1, BeginAttemptRecorded DEF StartTask, Resumes, Waiting
<1>2. ASSUME NEW e \in Envs, ResumeAfterReset(e) PROVE Recorded'
  <2>1. /\ gen[e] = "reset" /\ gen' = [gen EXCEPT ![e] = "plan"]
        /\ waypoints' = [waypoints EXCEPT ![e] = 0]
        /\ UNCHANGED <<exit, episodes, env_reset_queue>>
    BY <1>2 DEF ResumeAfterReset, Resumes
  <2>2. episodes[e] = Fresh
    BY <2>1 DEF Recorded, ResetInv, Fresh
  <2>3. ResetInv'
    BY <2>1 DEF Recorded, ResetInv, TypeOK
  <2>4. EpisodeIsAttempt'
    BY <2>1, <2>2 DEF Recorded, EpisodeIsAttempt, TypeOK, Fresh
  <2> QED
    BY <2>3, <2>4 DEF Recorded
<1>3. ASSUME NEW e \in Envs, PlanWaypoints(e) PROVE Recorded'
  BY <1>3, TaskMovesRecorded DEF PlanWaypoints, Resumes
<1>4. ASSUME NEW e \in Envs, PlanningFails(e) PROVE Recorded'
  BY <1>4, BeginAttemptRecorded DEF PlanningFails, Resumes, Waiting
<1>5. ASSUME NEW e \in Envs, PutAction(e) PROVE Recorded'
  <2>1. /\ gen[e] = "act" /\ gen' = [gen EXCEPT ![e] = "acting"]
        /\ waypoints' = [waypoints EXCEPT ![e] = @ + 1]
        /\ UNCHANGED <<exit, episodes, env_reset_queue>>
    BY <1>5 DEF PutAction, Resumes
  <2>2. ResetInv'
    BY <2>1 DEF Recorded, ResetInv, TypeOK
  <2>3. EpisodeIsAttempt'
    BY <2>1 DEF Recorded, EpisodeIsAttempt, TypeOK
  <2> QED
    BY <2>2, <2>3 DEF Recorded
<1>6. ASSUME NEW e \in Envs, NEW ok \in BOOLEAN, ContinueAttempt(e, ok) PROVE Recorded'
  BY <1>6, TaskMovesRecorded DEF ContinueAttempt, Resumes
<1>7. ASSUME NEW e \in Envs, NEW ok \in BOOLEAN, FinishAttempt(e, ok) PROVE Recorded'
  BY <1>7, BeginAttemptRecorded DEF FinishAttempt, Resumes, Waiting
<1>8. ASSUME NEW e \in Envs, NEW at \in Ready, TaskRaises(e, at)
      PROVE Recorded'
  BY <1>8, TaskMovesRecorded DEF TaskRaises, Resumes, Finished
<1>9. ASSUME NEW e \in Envs, GatherNotices(e) PROVE Recorded'
  BY <1>9, TaskMovesRecorded DEF GatherNotices, Finished
<1>10. ASSUME NEW e \in Envs, TaskCancelled(e) PROVE Recorded'
  BY <1>10, TaskMovesRecorded DEF TaskCancelled, Finished
<1>11. CASE RunTasks
  BY <1>11 DEF RunTasks, Recorded, ResetInv, EpisodeIsAttempt
<1>12. CASE TasksRan
  <2>1. exit = "running"
    BY <1>12 DEF TasksRan, Lock, LoopInv, Looping
  <2>2. UNCHANGED <<gen, episodes, waypoints, env_reset_queue>>
    BY <1>12 DEF TasksRan
  <2> QED
    BY <2>1, <2>2 DEF Recorded, ResetInv, EpisodeIsAttempt
<1>13. CASE ResetEnv
  BY <1>13, ResetEnvRecorded
<1>14. CASE ResetsDone
  BY <1>14 DEF ResetsDone, Recorded, ResetInv, EpisodeIsAttempt
<1>15. CASE GetActions
  BY <1>15 DEF GetActions, Recorded, ResetInv, EpisodeIsAttempt
<1>16. ASSUME NEW is_stopped \in BOOLEAN, StepEnv(is_stopped) PROVE Recorded'
  <2>1. \A e \in Envs : gen[e] = "acting"
    BY <1>16, GatherIsFull DEF StepEnv
  <2>2. gen' = [e \in Envs |-> "acted"]
    BY <1>16, StepEnvLock
  <2>3. ASSUME NEW e \in Envs
        PROVE  episodes'[e] = [initial |-> 1, steps |-> waypoints'[e]]
    <3>1. /\ episodes' = [f \in Envs |-> [episodes[f] EXCEPT !.steps = @ + 1]]
          /\ waypoints' = waypoints
      BY <1>16 DEF StepEnv
    <3>2. episodes[e] = [initial |-> 1, steps |-> waypoints[e] - 1]
      BY <2>1 DEF Recorded, EpisodeIsAttempt
    <3>3. waypoints[e] \in Nat /\ episodes[e] \in [initial : Nat, steps : Nat]
      BY DEF TypeOK
    <3> QED
      BY <3>1, <3>2, <3>3, RecordedStep
  <2> QED
    BY <2>2, <2>3 DEF Recorded, ResetInv, EpisodeIsAttempt
<1>17. CASE EnvRaises
  <2>1. exit = "running"
    BY <1>17 DEF EnvRaises, Lock, LoopInv, Looping
  <2>2. UNCHANGED <<gen, episodes, waypoints, env_reset_queue>>
    BY <1>17 DEF EnvRaises
  <2> QED
    BY <2>1, <2>2 DEF Recorded, ResetInv, EpisodeIsAttempt
<1>18. CASE CloseEnv
  BY <1>18 DEF CloseEnv, Recorded, ResetInv, EpisodeIsAttempt
<1>19. CASE UNCHANGED vars
  BY <1>19 DEF vars, Recorded, ResetInv, EpisodeIsAttempt
<1> QED
  BY <1>1, <1>2, <1>3, <1>4, <1>5, <1>6, <1>7, <1>8, <1>9, <1>10, <1>11, <1>12,
     <1>13, <1>14, <1>15, <1>16, <1>17, <1>18, <1>19
     DEF Next, EnvLoopStep, GeneratorStep, Terminated

--------------------------------------------------------------------------------
(* Books *)

\* An action that leaves the tallies and counters alone leaves the books balanced.
LEMMA BooksUntouched ==
    ASSUME BooksBalance, UNCHANGED <<datagen_config, exported, file, countVars>>
    PROVE  BooksBalance'
  BY DEF BooksBalance

\* A failed plan counts as an attempt and a failure and leaves the recorder alone.
LEMMA PlanningFailsBooks ==
    ASSUME TypeOK, BooksBalance, NEW e \in Envs, PlanningFails(e)
    PROVE  BooksBalance'
<1>1. UNCHANGED <<datagen_config, exported, file, num_success>>
  BY DEF PlanningFails, Resumes
<1>2. num_failures' - aborted' = num_failures - aborted
  BY DEF PlanningFails, TypeOK
<1>3. num_attempts' = num_success' + num_failures'
  <2>1. num_attempts = num_success + num_failures
    BY DEF BooksBalance
  <2> QED
    BY <1>1, <2>1 DEF PlanningFails, TypeOK
<1> QED
  BY <1>1, <1>2, <1>3 DEF BooksBalance

\* A finished attempt has an episode to export, and it is exported on the side it is
\* counted on.
LEMMA FinishAttemptBooks ==
    ASSUME TypeOK, Recorded, BooksBalance, NEW e \in Envs, NEW ok \in BOOLEAN,
           FinishAttempt(e, ok)
    PROVE  BooksBalance'
<1> DEFINE success == generated_success[e] \/ ok
<1>1. /\ gen[e] = "acted" /\ ExportEpisode(e, success)
      /\ num_success' = IF success THEN num_success + 1 ELSE num_success
      /\ num_failures' = IF success THEN num_failures ELSE num_failures + 1
      /\ num_attempts' = num_attempts + 1
      /\ UNCHANGED <<datagen_config, aborted>>
  BY DEF FinishAttempt, Resumes
<1>2. ~IsEmpty(episodes[e])
  <2>1. episodes[e] = [initial |-> 1, steps |-> waypoints[e]]
    BY <1>1 DEF Recorded, EpisodeIsAttempt
  <2>2. episodes[e].initial = 1 /\ EmptyEpisode.initial = 0
    BY <2>1 DEF EmptyEpisode
  <2> QED
    BY <2>2 DEF IsEmpty
<1>3. /\ num_attempts \in Nat /\ num_success \in Nat /\ num_failures \in Nat
      /\ aborted \in Nat
  BY DEF TypeOK
<1>4. CASE success
  <2>1. /\ exported' = [exported EXCEPT !.succeeded = @ + 1]
        /\ file' = [file EXCEPT !.succeeded = @ + 1]
    BY <1>1, <1>2, <1>4 DEF ExportEpisode
  <2> QED
    BY <1>1, <1>3, <1>4, <2>1 DEF BooksBalance
<1>5. CASE ~success
  <2>1. /\ exported' = [exported EXCEPT !.failed = @ + 1]
        /\ file' = IF datagen_config.keep_failed
                     THEN [file EXCEPT !.failed = @ + 1] ELSE file
    BY <1>1, <1>2, <1>5 DEF ExportEpisode
  <2>2. (num_failures + 1) - aborted = (num_failures - aborted) + 1
    BY <1>3
  <2>3. CASE datagen_config.keep_failed
    BY <1>1, <1>3, <1>5, <2>1, <2>2, <2>3 DEF BooksBalance
  <2>4. CASE ~datagen_config.keep_failed
    BY <1>1, <1>3, <1>5, <2>1, <2>2, <2>4 DEF BooksBalance
  <2> QED
    BY <2>3, <2>4
<1> QED
  BY <1>4, <1>5

\* env.reset finds the recorder empty and exports nothing.
LEMMA ResetEnvBooks ==
    ASSUME TypeOK, Lock, Recorded, BooksBalance, ResetEnv
    PROVE  BooksBalance'
<1> DEFINE e == Head(env_reset_queue)
<1>1. /\ main = "drain" /\ env_reset_queue # <<>> /\ ExportEpisode(e, FALSE)
      /\ UNCHANGED <<datagen_config, countVars>>
  BY DEF ResetEnv
<1>2. /\ exit = "running"
      /\ \A f \in ToSet(env_reset_queue) : gen[f] = "resetting"
  BY <1>1 DEF Lock, LoopInv, Looping, QueuesMatchTasks
<1>3. e \in Envs /\ e \in ToSet(env_reset_queue)
  BY <1>1, ToSetHeadTail DEF TypeOK
<1>4. IsEmpty(episodes[e])
  BY <1>2, <1>3 DEF Recorded, ResetInv, IsEmpty
<1>5. UNCHANGED <<exported, file>>
  BY <1>1, <1>4 DEF ExportEpisode
<1> QED
  BY <1>1, <1>5, BooksUntouched

\* Every step keeps the books balanced.
LEMMA BooksNext == TypeOK /\ Lock /\ Recorded /\ BooksBalance /\ [Next]_vars => BooksBalance'
<1> SUFFICES ASSUME TypeOK, Lock, Recorded, BooksBalance, [Next]_vars PROVE BooksBalance'
  OBVIOUS
<1>1. ASSUME NEW e \in Envs, GeneratorStep(e) PROVE BooksBalance'
  <2>1. CASE PlanningFails(e)
    BY <2>1, PlanningFailsBooks
  <2>2. ASSUME NEW ok \in BOOLEAN, FinishAttempt(e, ok) PROVE BooksBalance'
    BY <2>2, FinishAttemptBooks
  <2>3. CASE StartTask(e) \/ ResumeAfterReset(e) \/ PlanWaypoints(e) \/ PutAction(e)
    BY <2>3, BooksUntouched
       DEF StartTask, ResumeAfterReset, PlanWaypoints, PutAction, Resumes
  <2>4. ASSUME NEW ok \in BOOLEAN, ContinueAttempt(e, ok) PROVE BooksBalance'
    BY <2>4, BooksUntouched DEF ContinueAttempt, Resumes
  <2>5. ASSUME NEW at \in Ready, TaskRaises(e, at) PROVE BooksBalance'
    BY <2>5, BooksUntouched DEF TaskRaises, Resumes
  <2>6. CASE GatherNotices(e)
    BY <2>6, BooksUntouched DEF GatherNotices
  <2> QED
    BY <1>1, <2>1, <2>2, <2>3, <2>4, <2>5, <2>6 DEF GeneratorStep
<1>2. ASSUME NEW e \in Envs, TaskCancelled(e) PROVE BooksBalance'
  BY <1>2, BooksUntouched DEF TaskCancelled
<1>3. CASE ResetEnv
  BY <1>3, ResetEnvBooks
<1>4. CASE RunTasks \/ TasksRan \/ ResetsDone \/ GetActions \/ EnvRaises \/ CloseEnv
  BY <1>4, BooksUntouched DEF RunTasks, TasksRan, ResetsDone, GetActions, EnvRaises, CloseEnv
<1>5. ASSUME NEW is_stopped \in BOOLEAN, StepEnv(is_stopped) PROVE BooksBalance'
  BY <1>5, BooksUntouched DEF StepEnv
<1>6. CASE UNCHANGED vars
  BY <1>6, BooksUntouched DEF vars
<1> QED
  BY <1>1, <1>2, <1>3, <1>4, <1>5, <1>6 DEF Next, EnvLoopStep, Terminated

--------------------------------------------------------------------------------
(* The target and the shutdown *)

ActedEnvs == {e \in Envs : gen[e] = "acted"}

\* What the loop has seen when it says it reached its target; and the attempts still
\* to be counted: those of the tasks that the last step released.  They stay within
\* the target as long as the loop goes on, and so does what runs after an error that
\* the cancellation came too late for.
TargetInv ==
    /\ cancel => exit # "running"
    /\ exit = "target" =>
         (IF datagen_config.guarantee THEN num_success ELSE num_attempts) >= NumTrials
    /\ ~datagen_config.guarantee /\ ~datagen_config.skillgen =>
         /\ num_attempts < NumTrials + NumEnvs
         /\ cancel \/ /\ prev_num_attempts < NumTrials
                      /\ num_attempts + Cardinality(ActedEnvs)
                           <= prev_num_attempts + NumEnvs

\* The released tasks are finitely many, and no more than there are environments.
LEMMA ActedType ==
    ASSUME NEW g
    PROVE  LET A == {e \in Envs : g[e] = "acted"}
           IN  IsFiniteSet(A) /\ Cardinality(A) \in Nat /\ Cardinality(A) <= NumEnvs
  BY EnvsAssumption, FS_Subset, FS_CardinalityType DEF NumEnvs

\* A step that counts no attempt, and releases no task, keeps within the target.
LEMMA TargetUntouched ==
    ASSUME TypeOK, TypeOK', TargetInv, UNCHANGED <<datagen_config, countVars, prev_num_attempts>>,
           cancel => cancel', ActedEnvs' \subseteq ActedEnvs,
           cancel' => exit' # "running", exit' = "target" => exit = "target"
    PROVE  TargetInv'
<1>1. /\ Cardinality(ActedEnvs) \in Nat /\ Cardinality(ActedEnvs') \in Nat
      /\ Cardinality(ActedEnvs') <= Cardinality(ActedEnvs)
  <2>1. IsFiniteSet(ActedEnvs) /\ Cardinality(ActedEnvs) \in Nat
    BY ActedType DEF ActedEnvs
  <2> QED
    BY <2>1, FS_Subset, FS_CardinalityType
<1>2. NumEnvs \in Nat /\ NumTrials \in Nat
  BY NumEnvsType, NumTrialsAssumption
<1>3. Cardinality(ActedEnvs)' = Cardinality(ActedEnvs')
  OBVIOUS
<1> QED
  BY <1>1, <1>2, <1>3 DEF TargetInv, TypeOK, NumEnvs

\* An attempt that is counted was one of the tasks the last step released.
LEMMA FinishAttemptTarget ==
    ASSUME TypeOK, TypeOK', LoopInv, TargetInv, NEW e \in Envs, NEW ok \in BOOLEAN,
           FinishAttempt(e, ok)
    PROVE  TargetInv'
<1>1. /\ gen[e] = "acted" /\ gen' = [gen EXCEPT ![e] = "resetting"]
      /\ num_attempts' = num_attempts + 1
      /\ num_success' = num_success \/ num_success' = num_success + 1
      /\ UNCHANGED <<datagen_config, exit, cancel, prev_num_attempts>>
      /\ main \in {"tick", "gather"} \/ ~cancel
  BY DEF FinishAttempt, Resumes, BeginAttempt
<1>2. ~cancel
  BY <1>1 DEF LoopInv, Looping, TargetInv
<1>3. /\ Cardinality(ActedEnvs) \in Nat /\ Cardinality(ActedEnvs)' \in Nat
      /\ Cardinality(ActedEnvs)' = Cardinality(ActedEnvs) - 1
  <2>1. ActedEnvs' = ActedEnvs \ {e} /\ e \in ActedEnvs
    BY <1>1 DEF ActedEnvs, TypeOK
  <2>2. IsFiniteSet(ActedEnvs) /\ Cardinality(ActedEnvs) \in Nat
    BY ActedType DEF ActedEnvs
  <2>3. Cardinality(ActedEnvs') = Cardinality(ActedEnvs) - 1 /\ Cardinality(ActedEnvs') \in Nat
    BY <2>1, <2>2, FS_RemoveElement, FS_CardinalityType
  <2> QED
    BY <2>2, <2>3
<1>4. /\ NumEnvs \in Nat /\ NumTrials \in Nat /\ num_success \in Nat
      /\ num_attempts \in Nat /\ prev_num_attempts \in Nat
  BY NumEnvsType, NumTrialsAssumption DEF TypeOK
<1>5. ASSUME exit = "target"
      PROVE  (IF datagen_config.guarantee THEN num_success' ELSE num_attempts') >= NumTrials
  <2>1. CASE datagen_config.guarantee
    BY <1>1, <1>4, <1>5, <2>1 DEF TargetInv
  <2>2. CASE ~datagen_config.guarantee
    BY <1>1, <1>4, <1>5, <2>2 DEF TargetInv
  <2> QED
    BY <2>1, <2>2
<1>6. ASSUME ~datagen_config.guarantee, ~datagen_config.skillgen
      PROVE  /\ prev_num_attempts < NumTrials
             /\ num_attempts' + Cardinality(ActedEnvs)' <= prev_num_attempts + NumEnvs
             /\ num_attempts' < NumTrials + NumEnvs
  <2>1. /\ num_attempts < NumTrials + NumEnvs /\ prev_num_attempts < NumTrials
        /\ num_attempts + Cardinality(ActedEnvs) <= prev_num_attempts + NumEnvs
    BY <1>2, <1>6 DEF TargetInv
  <2> QED
    BY <1>1, <1>3, <1>4, <2>1
<1> QED
  BY <1>1, <1>2, <1>5, <1>6 DEF TargetInv, NumEnvs

\* The step that releases every task is the one that looks at the target.
LEMMA StepEnvTarget ==
    ASSUME TypeOK, TypeOK', Lock, TargetInv, NEW is_stopped \in BOOLEAN, StepEnv(is_stopped)
    PROVE  TargetInv'
<1>1. /\ main = "gather" /\ prev_num_attempts' = num_attempts
      /\ UNCHANGED <<datagen_config, countVars>>
  BY DEF StepEnv
<1>2. /\ exit = "running" /\ \A e \in Envs : gen[e] = "acting"
  BY <1>1, GatherIsFull
<1>3. ~cancel
  BY <1>2 DEF TargetInv
<1>4. Cardinality(ActedEnvs)' \in Nat /\ Cardinality(ActedEnvs)' <= NumEnvs
  <2>1. Cardinality(ActedEnvs') \in Nat /\ Cardinality(ActedEnvs') <= NumEnvs
    BY ActedType DEF ActedEnvs
  <2> QED
    BY <2>1
<1>5. NumEnvs \in Nat /\ NumTrials \in Nat \ {0}
  BY NumEnvsType, NumTrialsAssumption
<1>6. CASE TargetReached
  <2>1. exit' = "target" /\ cancel' = (\A e \in Envs : gen'[e] # "failed")
    BY <1>6 DEF StepEnv, LeaveLoop
  <2>2. \A e \in Envs : gen'[e] \in {"acting", "acted"}
    BY <1>2 DEF StepEnv, WakeIf
  <2>3. cancel'
    BY <2>1, <2>2
  <2> QED
    BY <1>1, <1>6, <2>1, <2>3 DEF TargetInv, TargetReached, NumEnvs
<1>7. CASE ~TargetReached
  <2>1. exit' # "target" /\ (cancel' => exit' # "running")
    BY <1>2, <1>3, <1>7 DEF StepEnv, LeaveLoop
  <2>2. ASSUME ~datagen_config.guarantee, ~datagen_config.skillgen
        PROVE  /\ num_attempts < NumTrials
               /\ num_attempts + Cardinality(ActedEnvs)' <= num_attempts + NumEnvs
               /\ num_attempts < NumTrials + NumEnvs
    <3>1. prev_num_attempts < NumTrials
      BY <1>3, <2>2 DEF TargetInv
    <3>2. num_attempts = prev_num_attempts \/ ~(num_attempts >= NumTrials)
      BY <1>7, <2>2 DEF TargetReached
    <3>3. num_attempts \in Nat /\ num_attempts < NumTrials
      BY <1>5, <3>1, <3>2 DEF TypeOK
    <3> HIDE DEF ActedEnvs, NumEnvs, TargetReached
    <3> QED
      BY <1>4, <1>5, <3>3
  <2> QED
    BY <1>1, <2>1, <2>2 DEF TargetInv, NumEnvs
<1> QED
  BY <1>6, <1>7

\* Every step keeps within the target.
LEMMA TargetNext ==
    TypeOK /\ TypeOK' /\ Lock /\ TargetInv /\ [Next]_vars => TargetInv'
<1> SUFFICES ASSUME TypeOK, TypeOK', Lock, TargetInv, [Next]_vars PROVE TargetInv'
  OBVIOUS
<1>0. LoopInv
  BY DEF Lock
<1>1. ASSUME NEW e \in Envs, GeneratorStep(e) PROVE TargetInv'
  <2>1. CASE PlanningFails(e)
    <3>1. /\ datagen_config.skillgen /\ gen' = [gen EXCEPT ![e] = "resetting"]
          /\ num_attempts' = num_attempts \/ num_attempts' = num_attempts + 1
          /\ UNCHANGED <<datagen_config, exit, cancel, num_success, prev_num_attempts>>
      BY <2>1 DEF PlanningFails, BeginAttempt, Resumes
    <3>2. num_attempts \in Nat /\ num_attempts' \in Nat /\ NumTrials \in Nat
      BY NumTrialsAssumption DEF TypeOK
    <3>3. num_attempts >= NumTrials => num_attempts' >= NumTrials
      BY <3>1, <3>2
    <3>4. cancel' => exit' # "running"
      BY <3>1 DEF TargetInv
    <3>5. ASSUME exit' = "target"
          PROVE  (IF datagen_config'.guarantee THEN num_success' ELSE num_attempts') >= NumTrials
      <4>1. (IF datagen_config.guarantee THEN num_success ELSE num_attempts) >= NumTrials
        BY <3>1, <3>5 DEF TargetInv
      <4>2. CASE datagen_config.guarantee
        BY <3>1, <4>1, <4>2
      <4>3. CASE ~datagen_config.guarantee
        BY <3>1, <3>3, <4>1, <4>3
      <4> QED
        BY <4>2, <4>3
    <3>6. datagen_config'.skillgen
      BY <3>1
    <3> QED
      BY <3>4, <3>5, <3>6 DEF TargetInv
  <2>2. ASSUME NEW ok \in BOOLEAN, FinishAttempt(e, ok) PROVE TargetInv'
    BY <1>0, <2>2, FinishAttemptTarget
  <2>3. CASE StartTask(e) \/ ResumeAfterReset(e) \/ PlanWaypoints(e) \/ PutAction(e)
    <3>1. ActedEnvs' \subseteq ActedEnvs
      BY <2>3 DEF StartTask, BeginAttempt, ResumeAfterReset, PlanWaypoints, PutAction,
                  TypeOK, ActedEnvs
    <3>2. UNCHANGED <<datagen_config, countVars, prev_num_attempts, exit, cancel>>
      BY <2>3 DEF StartTask, ResumeAfterReset, PlanWaypoints, PutAction, Resumes
    <3> QED
      BY <3>1, <3>2, TargetUntouched DEF TargetInv
  <2>4. ASSUME NEW ok \in BOOLEAN, ContinueAttempt(e, ok) PROVE TargetInv'
    <3>1. ActedEnvs' \subseteq ActedEnvs
      BY <2>4 DEF ContinueAttempt, TypeOK, ActedEnvs
    <3> QED
      BY <2>4, <3>1, TargetUntouched DEF TargetInv, ContinueAttempt, Resumes
  <2>5. ASSUME NEW at \in Ready, TaskRaises(e, at) PROVE TargetInv'
    <3>1. ActedEnvs' \subseteq ActedEnvs
      BY <2>5 DEF TaskRaises, TypeOK, ActedEnvs
    <3> QED
      BY <2>5, <3>1, TargetUntouched DEF TargetInv, TaskRaises, Resumes
  <2>6. CASE GatherNotices(e)
    <3>1. ActedEnvs' \subseteq ActedEnvs
      BY <2>6 DEF GatherNotices, TypeOK, ActedEnvs
    <3> QED
      BY <2>6, <3>1, TargetUntouched DEF TargetInv, GatherNotices
  <2> QED
    BY <1>1, <2>1, <2>2, <2>3, <2>4, <2>5, <2>6 DEF GeneratorStep
<1>2. ASSUME NEW e \in Envs, TaskCancelled(e) PROVE TargetInv'
  <2>1. ActedEnvs' \subseteq ActedEnvs
    BY <1>2 DEF TaskCancelled, TypeOK, ActedEnvs
  <2> QED
    BY <1>2, <2>1, TargetUntouched DEF TargetInv, TaskCancelled
<1>3. CASE ResetEnv
  <2>1. ActedEnvs' \subseteq ActedEnvs
    BY <1>3 DEF ResetEnv, WakeIf, TypeOK, ActedEnvs
  <2> QED
    BY <1>3, <2>1, TargetUntouched DEF TargetInv, ResetEnv
<1>4. CASE TasksRan \/ EnvRaises
  <2>1. UNCHANGED <<datagen_config, taskVars, countVars, prev_num_attempts>>
    BY <1>4 DEF TasksRan, EnvRaises
  <2>2. /\ exit = "running" /\ exit' # "target"
        /\ cancel' => exit' # "running"
    BY <1>0, <1>4 DEF TasksRan, EnvRaises, LeaveLoop, LoopInv, Looping, TargetInv
  <2>3. ActedEnvs' = ActedEnvs /\ ~cancel
    BY <2>1, <2>2 DEF ActedEnvs, TargetInv
  <2> QED
    BY <2>1, <2>2, <2>3, TargetUntouched
<1>5. CASE RunTasks \/ ResetsDone \/ GetActions \/ CloseEnv
  <2>1. UNCHANGED <<exitVars, taskVars, countVars, prev_num_attempts>>
    BY <1>5 DEF RunTasks, ResetsDone, GetActions, CloseEnv
  <2> QED
    BY <2>1, TargetUntouched DEF ActedEnvs, TargetInv
<1>6. ASSUME NEW is_stopped \in BOOLEAN, StepEnv(is_stopped) PROVE TargetInv'
  BY <1>6, StepEnvTarget
<1>7. CASE UNCHANGED vars
  BY <1>7, TargetUntouched DEF vars, ActedEnvs, TargetInv
<1> QED
  BY <1>1, <1>2, <1>3, <1>4, <1>5, <1>6, <1>7 DEF Next, EnvLoopStep, Terminated

--------------------------------------------------------------------------------
(* After a failure *)

NoneActed == \A e \in Envs : gen[e] # "acted"
Failed == \E e \in Envs : gen[e] = "failed"

\* Who has been stepped and who has raised: the tasks released by a step are resumed in
\* the next run of the event loop, before anybody hears of one of them that raises.
FailureInv ==
    /\ main = "tick" => \A e \in Envs : gen[e] = "acted" => e \in due
    /\ main = "drain" => NoneActed
    /\ main = "check" /\ (\E e \in Envs : gen[e] = "raised") => NoneActed
    /\ main = "tick" /\ (\E e \in due : gen[e] = "raised") => NoneActed
    /\ Failed => main \in {"tick", "cleanup", "closed"}
    /\ main = "tick" /\ Failed => NoneActed
    /\ main = "cleanup" /\ ~cancel => NoneActed

\* A task that is resumed was ready, and is neither in its place nor due any more.
LEMMA ResumedFailure ==
    ASSUME TypeOK, Lock, FailureInv, NEW e \in Envs, NEW at \in Ready, Resumes(e, at),
           NEW to, to \notin {"acted", "failed"}, gen' = [gen EXCEPT ![e] = to]
    PROVE  FailureInv'
<1>1. /\ gen[e] = at /\ main # "gather" /\ main' = main /\ cancel' = cancel
      /\ due' = due \ {e} /\ main \in {"tick", "cleanup"}
  BY GatherIsFull DEF Resumes, Ready
<1>2. gen'[e] = to /\ \A f \in Envs \ {e} : gen'[f] = gen[f]
  BY DEF TypeOK
<1>3. NoneActed => NoneActed'
  BY <1>2 DEF NoneActed
<1>4. Failed' => Failed
  BY <1>1, <1>2 DEF Failed
<1> QED
  BY <1>1, <1>2, <1>3, <1>4 DEF FailureInv, TypeOK

\* Every step keeps it.
LEMMA FailureNext == TypeOK /\ Lock /\ FailureInv /\ [Next]_vars => FailureInv'
<1> SUFFICES ASSUME TypeOK, Lock, FailureInv, [Next]_vars PROVE FailureInv'
  OBVIOUS
<1>1. ASSUME NEW e \in Envs, GeneratorStep(e) PROVE FailureInv'
  <2>1. CASE StartTask(e) \/ PlanningFails(e)
    BY <2>1, ResumedFailure DEF StartTask, PlanningFails, BeginAttempt, Ready
  <2>2. ASSUME NEW ok \in BOOLEAN, FinishAttempt(e, ok) PROVE FailureInv'
    BY <2>2, ResumedFailure DEF FinishAttempt, BeginAttempt, Ready
  <2>3. CASE ResumeAfterReset(e) \/ PlanWaypoints(e) \/ PutAction(e)
    BY <2>3, ResumedFailure DEF ResumeAfterReset, PlanWaypoints, PutAction, Ready
  <2>4. ASSUME NEW ok \in BOOLEAN, ContinueAttempt(e, ok) PROVE FailureInv'
    BY <2>4, ResumedFailure DEF ContinueAttempt, Ready
  <2>5. ASSUME NEW at \in Ready, TaskRaises(e, at) PROVE FailureInv'
    BY <2>5, ResumedFailure DEF TaskRaises
  <2>6. CASE GatherNotices(e)
    <3>1. /\ gen[e] = "raised" /\ main \in {"tick", "cleanup"}
          /\ main' = main /\ cancel' = cancel /\ due' = due \ {e}
      BY <2>6, GatherIsFull DEF GatherNotices
    <3>2. gen'[e] = "failed" /\ \A f \in Envs \ {e} : gen'[f] = gen[f]
      BY <2>6 DEF GatherNotices, TypeOK
    <3>3. main = "tick" => NoneActed
      BY <2>6, <3>1 DEF GatherNotices, FailureInv, NoneActed
    <3>4. NoneActed => NoneActed'
      BY <3>2 DEF NoneActed
    <3> QED
      BY <3>1, <3>2, <3>3, <3>4 DEF FailureInv
  <2> QED
    BY <1>1, <2>1, <2>2, <2>3, <2>4, <2>5, <2>6 DEF GeneratorStep
<1>2. ASSUME NEW e \in Envs, TaskCancelled(e) PROVE FailureInv'
  <2>1. /\ main = "cleanup" /\ main' = main /\ cancel /\ cancel' = cancel
    BY <1>2 DEF TaskCancelled
  <2> QED
    BY <2>1 DEF FailureInv
<1>3. CASE RunTasks
  <2>1. /\ main = "check" /\ main' = "tick" /\ UNCHANGED gen
        /\ \A e \in Envs : e \in due' <=> gen[e] \in Ready \cup {"raised"}
    BY <1>3 DEF RunTasks, Runnable
  <2>2. ~Failed /\ ~Failed'
    BY <2>1 DEF FailureInv, Failed
  <2>3. (\E e \in due' : gen'[e] = "raised") => NoneActed'
    <3>1. due' \subseteq Envs
      BY <1>3 DEF RunTasks, Runnable
    <3> QED
      BY <2>1, <3>1 DEF FailureInv, NoneActed
  <2> QED
    BY <2>1, <2>2, <2>3 DEF FailureInv, Ready
<1>4. CASE TasksRan
  <2>1. main = "tick" /\ due = {} /\ UNCHANGED gen /\ main' \in {"drain", "cleanup"}
    BY <1>4 DEF TasksRan, LeaveLoop
  <2>2. NoneActed /\ NoneActed'
    BY <2>1 DEF FailureInv, NoneActed
  <2>3. Failed' => main' = "cleanup"
    BY <1>4 DEF TasksRan, LeaveLoop, Failed
  <2> QED
    BY <2>1, <2>2, <2>3 DEF FailureInv
<1>5. CASE ResetEnv
  <2>1. /\ main = "drain" /\ main' = main
        /\ \A e \in Envs : gen'[e] = gen[e] \/ gen'[e] = "reset"
    BY <1>5 DEF ResetEnv, WakeIf
  <2>2. NoneActed' /\ ~Failed'
    BY <2>1 DEF FailureInv, NoneActed, Failed
  <2> QED
    BY <2>1, <2>2 DEF FailureInv
<1>6. CASE ResetsDone
  <2>1. main = "drain" /\ main' = "check" /\ UNCHANGED gen
    BY <1>6 DEF ResetsDone
  <2> QED
    BY <2>1 DEF FailureInv, NoneActed, Failed
<1>7. CASE GetActions
  <2>1. main = "check" /\ main' = "gather" /\ UNCHANGED gen
    BY <1>7 DEF GetActions
  <2> QED
    BY <2>1 DEF FailureInv, Failed
<1>8. ASSUME NEW is_stopped \in BOOLEAN, StepEnv(is_stopped) PROVE FailureInv'
  <2>1. \A e \in Envs : gen[e] = "acting"
    BY <1>8, GatherIsFull DEF StepEnv
  <2>2. \A e \in Envs : gen'[e] \in {"acting", "acted"}
    BY <1>8, <2>1 DEF StepEnv, WakeIf
  <2>3. main' = "check" \/ (main' = "cleanup" /\ cancel')
    BY <1>8, <2>2 DEF StepEnv, LeaveLoop
  <2> QED
    BY <2>2, <2>3 DEF FailureInv, Failed
<1>9. CASE EnvRaises
  <2>1. /\ main \in {"tick", "drain", "gather"} /\ main' = "cleanup" /\ UNCHANGED gen
        /\ cancel' <=> ~Failed
    BY <1>9 DEF EnvRaises, LeaveLoop, Failed
  <2>2. Failed => NoneActed
    BY <2>1 DEF FailureInv
  <2> QED
    BY <2>1, <2>2 DEF FailureInv, NoneActed
<1>10. CASE CloseEnv
  <2>1. main' = "closed" /\ UNCHANGED gen
    BY <1>10 DEF CloseEnv
  <2> QED
    BY <2>1 DEF FailureInv
<1>11. CASE UNCHANGED vars
  BY <1>11 DEF vars, FailureInv, NoneActed, Failed
<1> QED
  BY <1>1, <1>2, <1>3, <1>4, <1>5, <1>6, <1>7, <1>8, <1>9, <1>10, <1>11
     DEF Next, EnvLoopStep, Terminated

\* Where somebody failed, what a step may still do.
LEMMA AfterFailure ==
    ASSUME TypeOK, Lock, FailureInv, FailureInv', Failed, [Next]_vars
    PROVE  /\ main' \in {"tick", "cleanup", "closed"}
           /\ UNCHANGED <<exported, file, num_success>>
           /\ \A e \in Envs : episodes'[e] \in {episodes[e], EmptyEpisode}
<1>1. main \in {"tick", "cleanup", "closed"}
  BY DEF FailureInv
<1>2. PICK x \in Envs : gen[x] = "failed"
  BY DEF Failed
<1>3. ASSUME NEW e \in Envs, GeneratorStep(e)
      PROVE  /\ main' = main /\ UNCHANGED <<exported, file, num_success>>
             /\ episodes' \in {episodes, [episodes EXCEPT ![e] = EmptyEpisode]}
  <2>1. ASSUME NEW ok \in BOOLEAN, FinishAttempt(e, ok) PROVE FALSE
    BY <1>1, <2>1 DEF FinishAttempt, Resumes, FailureInv, NoneActed
  <2>2. CASE StartTask(e) \/ PlanningFails(e)
    BY <2>2 DEF StartTask, PlanningFails, BeginAttempt, Resumes
  <2>3. CASE ResumeAfterReset(e) \/ PlanWaypoints(e) \/ PutAction(e) \/ GatherNotices(e)
    BY <2>3 DEF ResumeAfterReset, PlanWaypoints, PutAction, GatherNotices, Resumes
  <2>4. ASSUME NEW ok \in BOOLEAN, ContinueAttempt(e, ok)
        PROVE  main' = main /\ UNCHANGED <<exported, file, num_success, episodes>>
    BY <2>4 DEF ContinueAttempt, Resumes
  <2>5. ASSUME NEW at \in Ready, TaskRaises(e, at)
        PROVE  main' = main /\ UNCHANGED <<exported, file, num_success, episodes>>
    BY <2>5 DEF TaskRaises, Resumes
  <2> QED
    BY <1>3, <2>1, <2>2, <2>3, <2>4, <2>5 DEF GeneratorStep
<1>4. ASSUME NEW e \in Envs, TaskCancelled(e)
      PROVE  main' = main /\ UNCHANGED <<exported, file, num_success, episodes>>
  BY <1>4 DEF TaskCancelled
<1>5. ASSUME EnvLoopStep
      PROVE  /\ main' \in {"cleanup", "closed"}
             /\ UNCHANGED <<exported, file, num_success, episodes>>
  <2>1. TasksRan \/ EnvRaises \/ CloseEnv
    BY <1>1, <1>5
       DEF EnvLoopStep, RunTasks, ResetEnv, ResetsDone, GetActions, StepEnv
  <2> QED
    BY <1>2, <2>1 DEF TasksRan, EnvRaises, CloseEnv, LeaveLoop
<1>6. CASE UNCHANGED vars
  BY <1>1, <1>6 DEF vars
<1>7. CASE \E e \in Envs : GeneratorStep(e)
  BY <1>1, <1>3, <1>7 DEF TypeOK
<1> QED
  BY <1>1, <1>4, <1>5, <1>6, <1>7 DEF Next, Terminated

--------------------------------------------------------------------------------
(* Theorems *)

\* The inductive invariant holds throughout.
THEOREM Invariance == Spec => []IInv
<1>1. IInv /\ [Next]_vars => IInv'
  BY TypeStep, LockStep, RecordedNext, BooksNext DEF IInv, Lock, Recorded
<1> QED
  BY InitIInv, <1>1, PTL DEF Spec

\* Every variable of the data generation keeps its type: in particular no queue's
\* count of unfinished tasks is ever taken below zero by task_done().
THEOREM TypeCorrect == Spec => []TypeOK
<1>1. IInv => TypeOK
  BY DEF IInv
<1> QED
  BY Invariance, <1>1, PTL

\* While env_loop runs the queues and the tasks agree: one action on its way for
\* each task that waits in the action queue's join, one request for each task that
\* waits for a reset not yet served.
THEOREM QueuesAlwaysMatchTasks == Spec => []QueuesMatchTasks
<1>1. IInv => QueuesMatchTasks
  BY DEF IInv
<1> QED
  BY Invariance, <1>1, PTL

\* Whatever the number of environments, env.step is only ever given a tensor in which
\* every row was filled.
THEOREM EveryRowAlwaysFilled == Spec => []EveryRowFilled
<1>1. IInv => EveryRowFilled
  BY GatherIsFull DEF IInv, Lock, EveryRowFilled
<1> QED
  BY Invariance, <1>1, PTL

\* The episode the recorder holds for a running attempt consists of the attempt's own
\* initial state and one step for each action it handed over.
THEOREM EpisodeIsAlwaysAttempt == Spec => []EpisodeIsAttempt
<1>1. IInv => EpisodeIsAttempt
  BY DEF IInv
<1> QED
  BY Invariance, <1>1, PTL

\* The statistics of generation.py, the counters of the recorder and the contents of
\* the dataset files always agree.
THEOREM BooksAlwaysBalance == Spec => []BooksBalance
<1>1. IInv => BooksBalance
  BY DEF IInv
<1> QED
  BY Invariance, <1>1, PTL

\* When the loop stops for its target the dataset really holds that many demos, and
\* without skillgen at most one attempt per environment is begun beyond the last one
\* asked for, however the tasks interleave and whatever fails.
THEOREM TargetAlwaysDelivered == Spec => []TargetDelivered
<1>1. Init => TargetInv
  <2> SUFFICES ASSUME Init PROVE TargetInv
    OBVIOUS
  <2>1. ActedEnvs = {}
    BY DEF Init, ActedEnvs
  <2>2. Cardinality(ActedEnvs) = 0
    BY <2>1, FS_EmptySet
  <2> QED
    BY <2>2, NumEnvsType, NumTrialsAssumption DEF Init, TargetInv
<1>2. IInv /\ IInv' /\ TargetInv /\ [Next]_vars => TargetInv'
  BY TargetNext DEF IInv, Lock
<1>3. IInv /\ TargetInv => TargetDelivered
  BY NumTrialsAssumption DEF IInv, TypeOK, BooksBalance, TargetInv, TargetDelivered
<1> QED
  BY Invariance, <1>1, <1>2, <1>3, PTL DEF Spec

\* A generator that raises, at any point and with the others anywhere, ends the
\* generation: once the gathered future has heard of it, no environment is stepped
\* or reset, and nothing is exported or counted as a success.
THEOREM FailureEndsGeneration == Spec => NothingAfterFailure
<1> DEFINE Allowed ==
      /\ main' \in {"tick", "cleanup", "closed"}
      /\ UNCHANGED <<exported, file, num_success>>
      /\ \A e \in Envs : episodes'[e] \in {episodes[e], EmptyEpisode}
<1>1. Init => FailureInv
  BY DEF Init, FailureInv, Failed, NoneActed
<1>2. IInv /\ FailureInv /\ [Next]_vars => FailureInv'
  BY FailureNext DEF IInv, Lock
<1>3. IInv /\ FailureInv /\ FailureInv' /\ [Next]_vars => (Failed => Allowed)
  BY AfterFailure DEF IInv, Lock
<1>4. IInv /\ FailureInv /\ FailureInv' /\ [Next]_vars => [Failed => Allowed]_vars
  BY <1>3
<1>5. Spec => [][Failed => Allowed]_vars
  BY Invariance, <1>1, <1>2, <1>4, PTL DEF Spec
<1> QED
  BY <1>5 DEF NothingAfterFailure, Failed

--------------------------------------------------------------------------------
(* Refinement: what the environments see of queues, tasks and event loop is the  *)
(* lock-step protocol of EnvLockstep.                                            *)

Phases == [e \in Envs |-> PhaseOf(e)]
Steps == [e \in Envs |-> episodes[e].steps]

\* The tasks that have not ended are in one of the other places.
LEMMA Places ==
    ASSUME TypeOK, NEW e \in Envs
    PROVE  \/ gen[e] \in Finished
           \/ gen[e] \in {"start", "resetting", "reset", "plan", "act", "acted", "acting"}
  BY DEF TypeOK, Waiting, Ready

\* Only the place of a task and whether its episode is empty matter for its phase.
LEMMA PhaseValues ==
    ASSUME TypeOK, NEW e \in Envs
    PROVE  /\ gen[e] \in Finished <=> PhaseOf(e) = "ended"
           /\ gen[e] = "start" => PhaseOf(e) = "unset"
           /\ gen[e] = "resetting" =>
                PhaseOf(e) = IF IsEmpty(episodes[e]) THEN "unset" ELSE "ready"
           /\ gen[e] \in {"reset", "plan", "act", "acted"} => PhaseOf(e) = "ready"
           /\ gen[e] = "acting" => PhaseOf(e) = "acting"
  BY Places DEF PhaseOf, Finished

\* The same after a step.
LEMMA PhaseValuesNext ==
    ASSUME TypeOK', NEW e \in Envs
    PROVE  /\ gen'[e] \in Finished <=> PhaseOf(e)' = "ended"
           /\ gen'[e] = "start" => PhaseOf(e)' = "unset"
           /\ gen'[e] = "resetting" =>
                PhaseOf(e)' = IF IsEmpty(episodes'[e]) THEN "unset" ELSE "ready"
           /\ gen'[e] \in {"reset", "plan", "act", "acted"} => PhaseOf(e)' = "ready"
           /\ gen'[e] = "acting" => PhaseOf(e)' = "acting"
<1>1. \/ gen'[e] \in Finished
      \/ gen'[e] \in {"start", "resetting", "reset", "plan", "act", "acted", "acting"}
  BY DEF TypeOK, Waiting, Ready
<1> QED
  BY <1>1 DEF PhaseOf, Finished, IsEmpty

\* The initial state maps to the initial state.
LEMMA InitRefines == Init => Lockstep!Init
<1> SUFFICES ASSUME Init PROVE Lockstep!Init
  OBVIOUS
<1>1. TypeOK
  BY InitIInv DEF IInv
<1>2. \A e \in Envs : PhaseOf(e) = "unset" /\ episodes[e].steps = 0
  BY <1>1, PhaseValues DEF Init
<1> QED
  BY <1>2 DEF Lockstep!Init

\* A step that leaves phases and recorded steps alone is a stutter.
LEMMA Stutters ==
    ASSUME \A e \in Envs : PhaseOf(e)' = PhaseOf(e) /\ episodes'[e].steps = episodes[e].steps
    PROVE  UNCHANGED Lockstep!vars
  BY DEF Lockstep!vars

\* A step of one task leaves the phases of the others alone.
LEMMA OneMoves ==
    ASSUME NEW e \in Envs,
           \A f \in Envs \ {e} : gen'[f] = gen[f] /\ episodes'[f] = episodes[f]
    PROVE  /\ Phases' = [Phases EXCEPT ![e] = PhaseOf(e)']
           /\ Steps' = [Steps EXCEPT ![e] = episodes'[e].steps]
<1>1. \A f \in Envs \ {e} : PhaseOf(f)' = PhaseOf(f)
  BY DEF PhaseOf, IsEmpty
<1> QED
  BY <1>1 DEF Phases, Steps

\* Beginning the next attempt concludes the one before it; the first attempt of a task
\* has nothing to conclude.
LEMMA BeginAttemptRefines ==
    ASSUME TypeOK, TypeOK', ResetInv, NEW e \in Envs, BeginAttempt(e),
           gen[e] \in {"start", "plan", "acted"}
    PROVE  [Lockstep!Next]_Lockstep!vars
<1>1. /\ gen' = [gen EXCEPT ![e] = "resetting"]
      /\ episodes' = [episodes EXCEPT ![e] = EmptyEpisode]
      /\ gen \in [Envs -> Waiting \cup Ready \cup Finished]
      /\ episodes \in [Envs -> [initial : Nat, steps : Nat]]
  BY DEF BeginAttempt, TypeOK
<1>2. /\ gen'[e] = "resetting" /\ episodes'[e] = EmptyEpisode
      /\ \A f \in Envs \ {e} : gen'[f] = gen[f] /\ episodes'[f] = episodes[f]
  BY <1>1
<1>3. PhaseOf(e)' = "unset" /\ episodes'[e].steps = 0
  BY <1>2, PhaseValuesNext DEF IsEmpty, EmptyEpisode
<1>4. /\ Phases' = [Phases EXCEPT ![e] = "unset"]
      /\ Steps' = [Steps EXCEPT ![e] = 0]
  BY <1>2, <1>3, OneMoves
<1>5. CASE gen[e] = "start"
  <2>1. PhaseOf(e) = "unset" /\ episodes[e].steps = 0
    BY <1>5, PhaseValues DEF ResetInv
  <2>2. \A f \in Envs : PhaseOf(f)' = PhaseOf(f) /\ episodes'[f].steps = episodes[f].steps
    BY <1>4, <2>1, <1>2, <1>3 DEF PhaseOf, IsEmpty
  <2> QED
    BY <2>2, Stutters
<1>6. CASE gen[e] \in {"plan", "acted"}
  <2>1. PhaseOf(e) = "ready"
    BY <1>6, PhaseValues
  <2>2. Lockstep!Conclude(e)
    BY <1>4, <2>1 DEF Lockstep!Conclude, Phases, Steps
  <2> QED
    BY <2>2 DEF Lockstep!Next
<1> QED
  BY <1>5, <1>6

\* A task that goes on without touching its episode keeps its phase.
LEMMA ReadyMoves ==
    ASSUME TypeOK, TypeOK', NEW e \in Envs, NEW to,
           gen[e] \in {"reset", "plan", "act", "acted"},
           to \in {"reset", "plan", "act", "acted"},
           gen' = [gen EXCEPT ![e] = to], UNCHANGED episodes
    PROVE  UNCHANGED Lockstep!vars
<1>1. gen'[e] = to /\ \A f \in Envs \ {e} : gen'[f] = gen[f]
  BY DEF TypeOK
<1>2. PhaseOf(e)' = PhaseOf(e)
  BY <1>1, PhaseValues, PhaseValuesNext
<1>3. \A f \in Envs \ {e} : PhaseOf(f)' = PhaseOf(f)
  BY <1>1 DEF PhaseOf
<1> QED
  BY <1>2, <1>3, Stutters

\* A task that ends for good takes its environment out of the protocol.
LEMMA TaskEnds ==
    ASSUME TypeOK, TypeOK', NEW e \in Envs, gen[e] \notin Finished,
           NEW to \in Finished, gen' = [gen EXCEPT ![e] = to], UNCHANGED episodes
    PROVE  Lockstep!Next
<1>1. gen'[e] = to /\ \A f \in Envs \ {e} : gen'[f] = gen[f]
  BY DEF TypeOK
<1>2. PhaseOf(e)' = "ended" /\ PhaseOf(e) # "ended"
  BY <1>1, PhaseValues, PhaseValuesNext
<1>3. /\ Phases' = [Phases EXCEPT ![e] = "ended"]
      /\ Steps' = Steps
  BY <1>1, <1>2, OneMoves DEF Steps
<1>4. Lockstep!End(e)
  BY <1>2, <1>3 DEF Lockstep!End, Phases, Steps
<1> QED
  BY <1>4 DEF Lockstep!Next

\* Handing over an action submits it.
LEMMA PutActionRefines ==
    ASSUME TypeOK, TypeOK', NEW e \in Envs, PutAction(e)
    PROVE  Lockstep!Next
<1>1. /\ gen[e] = "act" /\ gen' = [gen EXCEPT ![e] = "acting"] /\ UNCHANGED episodes
  BY DEF PutAction, Resumes
<1>2. gen'[e] = "acting" /\ \A f \in Envs \ {e} : gen'[f] = gen[f]
  BY <1>1 DEF TypeOK
<1>3. PhaseOf(e) = "ready" /\ PhaseOf(e)' = "acting"
  BY <1>1, <1>2, PhaseValues, PhaseValuesNext
<1>4. /\ Phases' = [Phases EXCEPT ![e] = "acting"]
      /\ Steps' = Steps
  BY <1>1, <1>2, <1>3, OneMoves DEF Steps
<1>5. Lockstep!Submit(e)
  BY <1>3, <1>4 DEF Lockstep!Submit, Phases, Steps
<1> QED
  BY <1>5 DEF Lockstep!Next

\* Serving a reset request resets that environment; that it may release the tasks that
\* wait for the queue changes no phase.
LEMMA ResetEnvRefines ==
    ASSUME TypeOK, TypeOK', Lock, ResetInv, ResetEnv
    PROVE  Lockstep!Next
<1>0. PICK e \in Envs : e = Head(env_reset_queue)
  BY ToSetHeadTail DEF ResetEnv, TypeOK
<1>1. /\ main = "drain" /\ env_reset_queue # <<>>
      /\ gen' = [f \in Envs |-> IF reset_unfinished = 1 /\ gen[f] = "resetting"
                                  THEN "reset" ELSE gen[f]]
      /\ episodes' = [episodes EXCEPT ![e] = [initial |-> 1, steps |-> 0]]
      /\ env_reset_queue \in Seq(Envs)
      /\ episodes \in [Envs -> [initial : Nat, steps : Nat]]
  BY <1>0 DEF ResetEnv, WakeIf, TypeOK
<1>2. e \in Envs /\ ToSet(env_reset_queue) = {e} \cup ToSet(Tail(env_reset_queue))
  BY <1>0, <1>1, ToSetHeadTail
<1>3. /\ exit = "running" /\ gen[e] = "resetting"
      /\ reset_unfinished = Len(env_reset_queue)
      /\ Distinct(env_reset_queue)
  BY <1>1, <1>2 DEF Lock, LoopInv, Looping, QueuesMatchTasks
<1>4. episodes[e] = EmptyEpisode /\ episodes'[e] = [initial |-> 1, steps |-> 0]
  BY <1>1, <1>2, <1>3 DEF ResetInv
<1>5. PhaseOf(e) = "unset" /\ PhaseOf(e)' = "ready"
  <2>1. gen'[e] \in {"reset", "resetting"}
    BY <1>1, <1>2, <1>3
  <2>2. PhaseOf(e) = "unset"
    BY <1>2, <1>3, <1>4, PhaseValues DEF IsEmpty
  <2>3. ~IsEmpty(episodes'[e])
    BY <1>4 DEF IsEmpty, EmptyEpisode
  <2>4. PhaseOf(e)' = "ready"
    BY <1>2, <2>1, <2>3, PhaseValuesNext
  <2> QED
    BY <2>2, <2>4
<1>6. ASSUME NEW f \in Envs \ {e} PROVE PhaseOf(f)' = PhaseOf(f) /\ episodes'[f] = episodes[f]
  <2>1. episodes'[f] = episodes[f]
    BY <1>1
  <2>2. CASE reset_unfinished = 1 /\ gen[f] = "resetting"
    <3>1. ToSet(env_reset_queue) = {e}
      <4>1. Len(env_reset_queue) = 1
        BY <1>3, <2>2
      <4>2. ASSUME NEW s \in Seq(Envs), s # <<>>, Len(s) = 1
            PROVE  Tail(s) \in Seq(Envs) /\ Len(Tail(s)) = 0
        BY <4>2
      <4>3. Tail(env_reset_queue) \in Seq(Envs) /\ Len(Tail(env_reset_queue)) = 0
        BY <1>1, <4>1, <4>2
      <4> QED
        BY <1>2, <4>3, ToSetEmpty
    <3>2. episodes[f] = [initial |-> 1, steps |-> 0]
      BY <1>3, <2>2, <3>1 DEF ResetInv
    <3>3. PhaseOf(f) = "ready"
      BY <2>2, <3>2, PhaseValues DEF IsEmpty, EmptyEpisode
    <3>4. gen'[f] = "reset"
      BY <1>1, <2>2
    <3> QED
      BY <2>1, <3>3, <3>4, PhaseValuesNext
  <2>3. CASE ~(reset_unfinished = 1 /\ gen[f] = "resetting")
    <3>1. gen'[f] = gen[f]
      BY <1>1, <2>3
    <3> QED
      BY <2>1, <3>1 DEF PhaseOf, IsEmpty
  <2> QED
    BY <2>2, <2>3
<1>7. Phases' = [Phases EXCEPT ![e] = "ready"] /\ Steps' = Steps
  <2>1. episodes'[e].steps = episodes[e].steps
    BY <1>4 DEF EmptyEpisode
  <2>2. \A f \in Envs : episodes'[f].steps = episodes[f].steps
    BY <1>6, <2>1
  <2>3. Phases' = [Phases EXCEPT ![e] = "ready"]
    BY <1>5, <1>6 DEF Phases
  <2> QED
    BY <2>2, <2>3 DEF Steps
<1>8. Lockstep!Reset(e)
  BY <1>2, <1>5, <1>7 DEF Lockstep!Reset, Phases, Steps
<1> QED
  BY <1>2, <1>8 DEF Lockstep!Next

\* env.step is the joint step: every task has an action pending and is released.
LEMMA StepEnvRefines ==
    ASSUME TypeOK, TypeOK', Lock, NEW is_stopped \in BOOLEAN, StepEnv(is_stopped)
    PROVE  Lockstep!Next
<1>1. /\ main = "gather"
      /\ episodes' = [e \in Envs |-> [episodes[e] EXCEPT !.steps = @ + 1]]
      /\ gen' = [e \in Envs |-> IF action_unfinished = NumEnvs /\ gen[e] = "acting"
                                  THEN "acted" ELSE gen[e]]
      /\ episodes \in [Envs -> [initial : Nat, steps : Nat]]
  BY DEF StepEnv, WakeIf, TypeOK
<1>2. /\ exit = "running" /\ env_action_queue = <<>>
      /\ \A e \in Envs : gen[e] = "acting"
  BY <1>1, GatherIsFull
<1>3. action_unfinished = NumEnvs
  BY <1>1, <1>2, NumEnvsType DEF Lock, LoopInv
<1>4. \A e \in Envs : gen'[e] = "acted" /\ episodes'[e].steps = episodes[e].steps + 1
  BY <1>1, <1>2, <1>3, RecordedStep
<1>5. \A e \in Envs : PhaseOf(e) = "acting" /\ PhaseOf(e)' = "ready"
  BY <1>2, <1>4, PhaseValues, PhaseValuesNext
<1>6. Lockstep!StepAll
  BY <1>4, <1>5 DEF Lockstep!StepAll
<1> QED
  BY <1>6 DEF Lockstep!Next

\* Every step maps to a step of the protocol or to a stutter.
LEMMA StepRefines ==
    IInv /\ IInv' /\ [Next]_vars => [Lockstep!Next]_Lockstep!vars
<1> SUFFICES ASSUME IInv, IInv', [Next]_vars PROVE [Lockstep!Next]_Lockstep!vars
  OBVIOUS
<1>0. TypeOK /\ TypeOK' /\ Lock /\ ResetInv
  BY DEF IInv, Lock
<1>1. ASSUME UNCHANGED <<gen, episodes>> PROVE UNCHANGED Lockstep!vars
  <2>1. \A e \in Envs : PhaseOf(e)' = PhaseOf(e)
    BY <1>1 DEF PhaseOf, IsEmpty
  <2> QED
    BY <1>1, <2>1, Stutters
<1>2. ASSUME NEW e \in Envs, GeneratorStep(e) PROVE [Lockstep!Next]_Lockstep!vars
  <2>1. CASE StartTask(e) \/ PlanningFails(e)
    BY <1>0, <2>1, BeginAttemptRefines DEF StartTask, PlanningFails, Resumes
  <2>2. ASSUME NEW ok \in BOOLEAN, FinishAttempt(e, ok) PROVE [Lockstep!Next]_Lockstep!vars
    BY <1>0, <2>2, BeginAttemptRefines DEF FinishAttempt, Resumes
  <2>3. CASE ResumeAfterReset(e) \/ PlanWaypoints(e)
    BY <1>0, <2>3, ReadyMoves DEF ResumeAfterReset, PlanWaypoints, Resumes
  <2>4. ASSUME NEW ok \in BOOLEAN, ContinueAttempt(e, ok) PROVE [Lockstep!Next]_Lockstep!vars
    BY <1>0, <2>4, ReadyMoves DEF ContinueAttempt, Resumes
  <2>5. CASE PutAction(e)
    BY <1>0, <2>5, PutActionRefines
  <2>6. ASSUME NEW at \in Ready, TaskRaises(e, at)
        PROVE  [Lockstep!Next]_Lockstep!vars
    BY <1>0, <2>6, TaskEnds DEF TaskRaises, Resumes, Ready, Finished
  <2>7. CASE GatherNotices(e)
    <3>1. /\ gen[e] \in Finished /\ gen'[e] \in Finished
          /\ \A f \in Envs \ {e} : gen'[f] = gen[f]
          /\ UNCHANGED episodes
      BY <1>0, <2>7 DEF GatherNotices, TypeOK, Finished
    <3>2. PhaseOf(e)' = PhaseOf(e)
      BY <1>0, <3>1, PhaseValues, PhaseValuesNext
    <3>3. \A f \in Envs \ {e} : PhaseOf(f)' = PhaseOf(f)
      BY <3>1 DEF PhaseOf, IsEmpty
    <3> QED
      BY <3>1, <3>2, <3>3, Stutters
  <2> QED
    BY <1>2, <2>1, <2>2, <2>3, <2>4, <2>5, <2>6, <2>7 DEF GeneratorStep
<1>3. ASSUME NEW e \in Envs, TaskCancelled(e) PROVE [Lockstep!Next]_Lockstep!vars
  BY <1>0, <1>3, TaskEnds DEF TaskCancelled, Finished
<1>4. CASE ResetEnv
  BY <1>0, <1>4, ResetEnvRefines
<1>5. ASSUME NEW is_stopped \in BOOLEAN, StepEnv(is_stopped) PROVE [Lockstep!Next]_Lockstep!vars
  BY <1>0, <1>5, StepEnvRefines
<1>6. CASE RunTasks \/ TasksRan \/ ResetsDone \/ GetActions \/ EnvRaises \/ CloseEnv
  BY <1>1, <1>6 DEF RunTasks, TasksRan, ResetsDone, GetActions, EnvRaises, CloseEnv
<1>7. CASE UNCHANGED vars
  BY <1>1, <1>7 DEF vars
<1> QED
  BY <1>2, <1>3, <1>4, <1>5, <1>6, <1>7 DEF Next, EnvLoopStep, Terminated

\* The data generation, for every number of environments, every configuration and with
\* failures at every point, is seen by the environments as the lock-step protocol: no
\* environment is stepped without its action, none is reset while its action is
\* pending, and one joint step adds one recorded step to every episode.
THEOREM RefinesLockstep == Spec => ImplementsLockstep
<1>1. Init => Lockstep!Init
  BY InitRefines
<1>2. IInv /\ IInv' /\ [Next]_vars => [Lockstep!Next]_Lockstep!vars
  BY StepRefines
<1> QED
  BY <1>1, <1>2, Invariance, PTL DEF Spec, ImplementsLockstep, Lockstep!Spec
================================================================================
