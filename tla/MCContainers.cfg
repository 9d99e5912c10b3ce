SPECIFICATION MCSpec
CONSTANTS
  Channels = {n1, n2}
  Ciphers = {x1, x2}
  Flags <- SentFlags
  IdReuse = FALSE
  NoReader = NoReader
  NoChannel = NoChannel
  NoCipher = NoCipher
  Producers = {p1, p2}
  Consumers = {c1}
  Sizes <- OneOrTwo
  MaxBytes = 2
  TimedWait = TRUE
  NoThread = NoThread
  Packets = {k1, k2}
  Interval = 4
  Tolerance = 1
  Sleep = 1
  Slack = 2
  MaxTime = 14
  Adders = {a1, a2}
  Workers = {w1, w2}
  MaxQueueSize = 2
  Uses <- AllUses
  MaxRequests = 2
INVARIANT TableConsistent HeldCipherLives ViewsAgree NeverNull AcceptedOnce NoLostWakeUp FinishesAccepted
PROPERTY CloseCompletes ImplementsFifo WaitersWake AcceptedIsRun
