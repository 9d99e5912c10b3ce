SPECIFICATION ASpec
CONSTANTS
  Conns = {c1, c2}
  From <- FromOneAddress
  Privileged = {}
  MaxUsers = 2
  MaxNew = 2
  Allowed = 2
  MaxBlocked = 1
  Payment = TRUE
INVARIANT LoginKeepsConnection
CHECK_DEADLOCK FALSE
