SPECIFICATION HealthSpec
CONSTANTS
  NoData = NoData
  Objectives <- SomeObjectives
  Windows = {1, 7}
  MaxTotal = 2
  Waits = {0, 24, 360}
  MaxAge = 744
  Dates = {0, 1, 20, 24}
  Sizes = {40, 70, 77, 95}
  MaxRows = 4
  Limit = 100
PROPERTIES
  SeverityFollowsService
  GrowthNeverCalms
CHECK_DEADLOCK FALSE
