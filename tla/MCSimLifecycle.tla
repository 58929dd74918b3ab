---------------------------- MODULE MCSimLifecycle ----------------------------
(* Instances of SimLifecycle: an asset, a sensor and a manager in two contexts. *)
EXTENDS SimLifecycle, TLC

CONSTANTS robot, imu, actions

ThreeKinds == robot :> "asset" @@ imu :> "sensor" @@ actions :> "manager"
================================================================================
