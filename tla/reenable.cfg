SPECIFICATION Spec
CONSTANTS
  FailLimit = 2
  PerfWindow = 3
  BudgetTrip = 2
  Topology = {t1}
  LayerId = {1, 2, 3, 4, 5}
  MaxLayers = 1
  Durations = {0}
  MaxGap = 1
  MaxAccum = 1
  Outcomes = {"ok", "slow"}
  Modes = {"live"}
  Visible = {TRUE}
  Copyable = {TRUE}
VIEW Canonical
PROPERTY ReenableTakesHold
