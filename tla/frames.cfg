SPECIFICATION FairSpec
CONSTANTS
  Period = {1, 3}
  SimPeriod = {4}
  Slack = 1
  Client = {c1}
  Uptime = 9
  Cap = 3
  SimCap = 4
INVARIANT TypeOK
PROPERTIES FramesKeepComing RequestsAreServed LedsNotFlooded NoBurst
