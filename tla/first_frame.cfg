SPECIFICATION Spec
CONSTANTS
  Period = {2, 3}
  SimPeriod = {3}
  Slack = 1
  Client = {c1}
  Uptime = 9
  Cap = 3
  SimCap = 3
PROPERTY DtIsClamped
