SPECIFICATION FairSpec
CONSTANTS
  Items = {i1, i2}
  Workers = {w1, w2}
  MaxAttempts = 2
  MaxFaults = 2
  NoItem = NoItem
INVARIANTS
  TypeOK
  LeaseExclusive
  RetryBudget
PROPERTIES
  FailedIsFinal
  OnlyCompleterReopens
  ItemsSettle
CHECK_DEADLOCK FALSE
