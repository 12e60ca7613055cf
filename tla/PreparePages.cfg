SPECIFICATION Spec
CONSTANTS
  Jobs = {j1}
  Workers = {w1, w2}
  PageCount <- PageCounts
  Images <- PdfSides
  MaxAttempts = 2
  MaxFaults = 0
  Stages = {}
  Requests = {}
  NoTask = NoTask
INVARIANTS
  EveryPageCommanded
CHECK_DEADLOCK FALSE
