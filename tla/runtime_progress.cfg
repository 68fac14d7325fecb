SPECIFICATION FairSpec
CONSTANTS
  FailLimit = 2
  PerfWindow = 1
  BudgetTrip = 2
  Topology = {t1}
  LayerId = {1, 2, 3}
  MaxLayers = 1
  Durations = {1}
  MaxGap = 1
  MaxAccum = 1
  Outcomes = {"raise", "slow"}
  Modes = {"live", "design"}
  Visible = {TRUE}
  Copyable = {TRUE}
PROPERTIES CrossfadeSettles OverloadedLayersGoDark
