SPECIFICATION MCSpec
CONSTANTS
  None = None
  c1 = c1
  a1 = a1
  Conns = {c1, c2, c3}
  Slots = {s1, s2}
  Accounts = {a1, a2}
  AccountsOf <- MCAccountsOf
  MaxRetries = 1
  Settlers = {s, l}
  LoginThread = l
  Verdicts <- MCVerdicts
  MaxBytes = 3
  MaxNr = 2
  PrepaidInterval = 1
  SoftLimit = 1
  HardLimit = 0
  PacketsBeforeCheck = 2
  Word = 10
  NoBytes = NoBytes
INVARIANT OneSession AccountNotLocked UnpaidBounded AppliedInOrder SettledIsSeen
PROPERTY BalanceStored NoVerdictLost
CHECK_DEADLOCK FALSE
