\* A file of one or two pages, objects of two blocks, two attempts, one fault.
SPECIFICATION Spec
CONSTANTS
  Callers <- MCCallers
  Pages <- MCPages
  Setups <- MCSetups
  Lossy <- MCLossy
  MaxPages = 2
  MaxAttempts = 2
  Blocks = 2
  MaxFaults = 1
INVARIANTS
  TypeOK
  RowsNameObjects
  LeftoversHaveCause
  WordsHaveCause
PROPERTY
  ImplementsAtomicStore
CHECK_DEADLOCK FALSE
