SPECIFICATION Spec
CONSTANTS
  MaxCount = 2
  Panes = {1, 2}
  MaxAgents = 1
  Lens = {2, 3}
  Sizes = {1, 2}
  WeekLen = 3
  WeekSize = 3
  Slack = 1
  Observations <- MCObservations
  MaxSamples = 4
  Stamps = {0, 1, 2, 3, 4, 9}
  Horizon = 9
INVARIANTS
  AgentRowTruth
CHECK_DEADLOCK FALSE
