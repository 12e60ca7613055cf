SPECIFICATION FairSpec
CONSTANTS
  Messages = {m1}
  Publishers = {p1}
  Limit = 1
  MaxFaults = 0
PROPERTIES
  OutboxWillRetry
CHECK_DEADLOCK FALSE
