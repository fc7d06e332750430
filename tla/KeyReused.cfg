SPECIFICATION Spec
CONSTANTS
  User = {u1, u2}
  nKeypool = 0
  MaxKeys = 3
INVARIANTS
  WontBeUsedAgain
CHECK_DEADLOCK FALSE
