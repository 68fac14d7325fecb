SPECIFICATION Spec
CONSTANTS
  FailLimit = 1
  PerfWindow = 1
  BudgetTrip = 1
  Topology = {t1, t2}
  LayerId = {1, 2, 3, 4, 5, 6}
  MaxLayers = 2
  Durations = {0, 1}
  MaxGap = 1
  MaxAccum = 1
  Outcomes = {"ok"}
  Modes = {"live"}
  Visible = {TRUE}
  Copyable = {TRUE}
VIEW Canonical
INVARIANTS TypeOK
  FitsTopology SelectedInRange Isolated
PROPERTY IsStage
