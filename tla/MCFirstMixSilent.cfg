SPECIFICATION TSpec
CONSTANTS
  Entries = {a, b}
  Silent = {a}
  Watched = {}
  Expiration = 2
  MaxRetries = 1
  Nobody = Nobody
PROPERTY SilentTimeOut
CHECK_DEADLOCK FALSE
