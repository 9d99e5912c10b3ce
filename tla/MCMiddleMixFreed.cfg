CONSTANTS
  Channels = {c1, c2}
  Ciphers = {k1, k2}
  Flags <- SentFlags
  IdReuse = TRUE
  NoReader = NoReader
  NoChannel = NoChannel
  NoCipher = NoCipher
SPECIFICATION MMSpec
INVARIANT
  NoUseOfFreedCipher
