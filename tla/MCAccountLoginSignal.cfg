CONSTANTS
  None = None
  Conns = {c1, c2}
  Slots = {s1, s2}
  Accounts = {a1}
  AccountsOf <- MCAccountsOf
  MaxRetries = 1
SPECIFICATION Spec
CHECK_DEADLOCK FALSE
INVARIANT NoLostSignal
