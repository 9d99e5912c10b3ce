SPECIFICATION MCSpec
CONSTANTS
  Entries = {a, b, c}
  Silent = {}
  Watched = {a}
  Expiration = 1
  MaxRetries = 1
  Nobody = Nobody
  Users = {u, v}
  Plain = {v}
  InIds = {1, 2}
  Alone = {u}
  SecondIds = {2}
  OutIds = {o, p}
  MaxChannels = 1
  MaxToMix = 1
  MaxDown = 2
  MaxControl = 1
  MaxFromMix = 1
  Threads = {s, t}
  Lengths = {1, 2, 3, 5}
  Header = 2
  Tag = 1
  DataSize = 3
  MaxMessages = 3
  Conns = {c1, c2, c3, c4, c5}
  Crowd = {c1, c2, c3}
  From <- FromOf
  Privileged = {c5}
  MaxUsers = 1
  MaxNew = 1
  Allowed = 2
  MaxBlocked = 0
  Payment = FALSE
INVARIANT CountersExact TimeoutListWhole NextMixAgrees UserAgrees DecryptedInStep
PROPERTY ForcedStays KickoutEnds
CHECK_DEADLOCK FALSE
