CONSTANTS
  Envs = {e1, e2}
  HistoryLength = 2
  CommandRange = {2}
  IntervalRange = {2, 3}
  GlobalRange = {2}
  MinStepCount = 2
  MaxSteps = 4
  MaxResets = 2
SYMMETRY Symmetry
SPECIFICATION Spec
INVARIANTS
  ObservationsOfNewEpisode
  EndedEpisodeReported
  RecordingAligned
  EventsOnTime
