SPECIFICATION Spec
CONSTANTS
  Users = {a1, a2}
  Admins = {a1, a2}
  Tokens = {t1, t2}
  Requests = {r1, r2}
  MaxChanges = 1
  NoToken = NoToken
  NoUser = NoUser
SYMMETRY Interchangeable
INVARIANTS
  TypeOK
  OldSessionsEnd
PROPERTIES
  RevokedStaysRevoked
  LastAdminGoesLast
CHECK_DEADLOCK FALSE
