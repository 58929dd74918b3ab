----------------------------- MODULE MCMimicDatagen -----------------------------
(* MimicDatagen on small instances for TLC: the combinations of datagen_config   *)
(* that behave differently.                                                      *)
EXTENDS MimicDatagen

Config(guarantee, keep_failed, skillgen) ==
    [guarantee |-> guarantee, keep_failed |-> keep_failed, skillgen |-> skillgen]

SkillgenConfigs == {Config(FALSE, FALSE, TRUE)}
AttemptConfigs == {Config(FALSE, TRUE, FALSE), Config(TRUE, FALSE, FALSE),
                   Config(TRUE, TRUE, TRUE)}
================================================================================
