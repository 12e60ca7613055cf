SPECIFICATION FairSpec
CONSTANTS
  MaxFaults = 1
INVARIANTS
  TypeOK
  OneLateEvent
  OutcomeHasSource
PROPERTIES
  OutcomeReachesClient
  LeavingEndsRelay
CHECK_DEADLOCK FALSE
