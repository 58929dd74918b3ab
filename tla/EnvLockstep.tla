------------------------------ MODULE EnvLockstep ------------------------------
(* What the asynchronous data generation promises to a vectorised environment, *)
(* independent of queues, tasks and event loops.  Every environment is reset   *)
(* before it is used, is given exactly one action before each joint step, is   *)
(* never reset while its action is pending, and the joint step happens only    *)
(* when every environment has an action.  steps[e] is the number of joint      *)
(* steps environment e has been through since its last reset.                  *)
EXTENDS Naturals

CONSTANT Envs

VARIABLES phase, steps

vars == <<phase, steps>>

TypeOK ==
    /\ phase \in [Envs -> {"unset", "ready", "acting", "ended"}]
    /\ steps \in [Envs -> Nat]

Init ==
    /\ phase = [e \in Envs |-> "unset"]
    /\ steps = [e \in Envs |-> 0]

Reset(e) ==
    /\ phase[e] = "unset"
    /\ phase' = [phase EXCEPT ![e] = "ready"]
    /\ UNCHANGED steps

Submit(e) ==
    /\ phase[e] = "ready"
    /\ phase' = [phase EXCEPT ![e] = "acting"]
    /\ UNCHANGED steps

StepAll ==
    /\ \A e \in Envs : phase[e] = "acting"
    /\ phase' = [e \in Envs |-> "ready"]
    /\ steps' = [e \in Envs |-> steps[e] + 1]

\* the attempt of e is over: its recorded steps are handed over or dropped
Conclude(e) ==
    /\ phase[e] = "ready"
    /\ phase' = [phase EXCEPT ![e] = "unset"]
    /\ steps' = [steps EXCEPT ![e] = 0]

\* the task that drives e ends for good
End(e) ==
    /\ phase[e] # "ended"
    /\ phase' = [phase EXCEPT ![e] = "ended"]
    /\ UNCHANGED steps

Next ==
    \/ StepAll
    \/ \E e \in Envs : Reset(e) \/ Submit(e) \/ Conclude(e) \/ End(e)

Spec == Init /\ [][Next]_vars
================================================================================
