SPECIFICATION FairSpec
CONSTANTS
  password = password
  google = google
  address = address
  r1 = r1
  r2 = r2
  Credential = {password, google}
  ByPassword = {password}
  Email = {address}
  EmailOf <- SameAddress
  Request = {r1, r2}
  None = None
  MaxUsers = 2
  MaxFiles = 3
  MaxChanges = 1
  Scopes <- SmallScopes
INVARIANTS TypeOK OneUserPerEmail ImageExists WithdrawnErased
PROPERTIES ProfileCatchesUp
CHECK_DEADLOCK FALSE
