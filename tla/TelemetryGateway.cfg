CONSTANTS
  Devices = {d1, d2}
  Handlers = {h1, h2}
  NoHandler = none
  Refreshes = {r1, r2}
  Windows = {1, 2}
  Limit = 1
  MaxTime = 2
  MaxRows = 2
SPECIFICATION FairSpec
PROPERTIES
  AcknowledgedStored
  PanelInChart
  ChartFollowsSelection
