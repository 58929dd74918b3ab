\* Two environments on their own clocks, every update period up to three steps.
CONSTANTS
  e1 = e1
  e2 = e2
  Envs <- MCEnvs
  HistoryLength = 2
  Periods = {0, 2, 3}
  MaxTime = 5
  MaxEpisode = 3
SPECIFICATION Spec
SYMMETRY Symmetry
INVARIANTS
  HistoryOfEpisode
  TimesOfEpisode
  FreshWhenNotOutdated
