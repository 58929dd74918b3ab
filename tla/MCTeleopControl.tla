---------------------------- MODULE MCTeleopControl ----------------------------
(* Instances of TeleopControl for TLC. *)
EXTENDS TeleopControl

Config(name, hasChannel, default, worker) ==
    [script |-> name, channel |-> hasChannel, activeDefault |-> default, pipelined |-> worker]

\* The configurations of the scripts as they come, with retargeters in a worker; both
\* with retargeters in the step, one of them to be active from the start; and one
\* without a channel.
AllConfigs ==
    { Config("record_demos", TRUE, FALSE, TRUE), Config("record_demos", TRUE, FALSE, FALSE),
      Config("teleop_se3_agent", TRUE, FALSE, TRUE),
      Config("teleop_se3_agent", TRUE, TRUE, FALSE),
      Config("teleop_se3_agent", FALSE, TRUE, TRUE) }
================================================================================
