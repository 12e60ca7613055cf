SPECIFICATION FairSpec
CONSTANTS
  Messages = {m1, m2, m3}
  Publishers = {p1, p2}
  Limit = 2
  MaxFaults = 2
INVARIANTS
  TypeOK
  PublishedIsInKafka
  DuplicatesNeedFaults
PROPERTIES
  ImplementsAtLeastOnce
  Drains
CHECK_DEADLOCK FALSE
