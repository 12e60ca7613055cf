SPECIFICATION Spec
CONSTANTS
  r1 = r1
  r2 = r2
  r3 = r3
  r4 = r4
  k1 = k1
  fileA = fileA
  fileB = fileB
  Requests = {r1, r2, r3}
  Keys = {k1}
  KeyOf <- Key
  FilesOf <- Files
  NoKey = NoKey
  NoEntry = NoEntry
  MaxFaults = 1
INVARIANTS
  AnsweredJobHasOriginals
CHECK_DEADLOCK FALSE
