SPECIFICATION FairSpec
CONSTANTS
  Jobs = {j1}
  Workers = {w1, w2}
  PageCount <- PageCounts
  Images <- PdfSides
  MaxAttempts = 2
  MaxFaults = 1
  Stages = {}
  Requests = {}
  NoTask = NoTask
INVARIANTS
  TypeOK
  NoEmptyCommand
  SucceededSideStored
  BatchesBoundedByRacers
  FailureHasCause
PROPERTIES
  PreparationEnds
CHECK_DEADLOCK FALSE
