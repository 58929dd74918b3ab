-------------------------- MODULE MCSubtaskConstraints --------------------------
(* SubtaskConstraints for two end effectors with two subtasks each.              *)
EXTENDS SubtaskConstraints

TwoEefs == {"left", "right"}
LeftRight == <<"left", "right">>
RightLeft == <<"right", "left">>
BothOrders == {LeftRight, RightLeft}
TwoSubtasks == [e \in TwoEefs |-> 2]

Sequential(first, second, diff) ==
    [type |-> "sequential", first |-> first, second |-> second,
     min_time_diff |-> diff, sync_start |-> FALSE]
Coordination(first, second, sync_start) ==
    [type |-> "coordination", first |-> first, second |-> second,
     min_time_diff |-> -1, sync_start |-> sync_start]

L0 == <<"left", 0>>
L1 == <<"left", 1>>
R0 == <<"right", 0>>
R1 == <<"right", 1>>

\* each kind of constraint in both directions, and two of them at once
SeparateConstraints == {
    <<>>,
    <<Sequential(L0, R1, -1)>>,
    <<Sequential(R0, L0, 2), Sequential(L1, R1, -1)>>,
    <<Coordination(L1, R1, FALSE)>>,
    <<Coordination(R0, L1, TRUE)>>,
    <<Coordination(L0, R0, TRUE), Sequential(R1, L1, 1)>> }

\* a second constraint takes a subtask of the first
CoordinationLost == {<<Coordination(L0, R0, FALSE), Sequential(R0, L1, -1)>>}

\* each subtask is held back until another that waits for it
MutuallyWaiting == {
    <<Sequential(L1, R0, -1), Sequential(R1, L0, -1)>>,
    <<Coordination(L0, R1, FALSE), Coordination(L1, R0, TRUE)>> }

ManyConstraints == SeparateConstraints \cup CoordinationLost \cup MutuallyWaiting
================================================================================
