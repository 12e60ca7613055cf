SPECIFICATION Spec
CONSTANTS
  Jobs = {j1}
  Workers = {w1, w2}
  PageCount <- PageCounts
  Images <- PdfSides
  MaxAttempts = 2
  MaxFaults = 0
  Stages <- AllStages
  Requests = {"cancel", "delete"}
  NoTask = NoTask
INVARIANTS
  RefsResolve
PROPERTIES
  FinishedStaysFinished
SYMMETRY WorkerSymmetry
CHECK_DEADLOCK FALSE
