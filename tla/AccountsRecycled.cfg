SPECIFICATION Spec
CHECK_DEADLOCK FALSE
CONSTANTS
  UserName = {alice}
  AuthToken = {t1}
  Request = {r1, r2}
  Admin = {r1, r2}
  Nonce = {n1}
  MaxUsers = 2
INVARIANTS
  UsersInvariant
