CONSTANTS
  c1 = c1
  c2 = c2
  Channels = {c1, c2}
  SoftLimit = 2
  HardLimit = 2
  MaxSendQueue = 2
  MaxUp <- Up
  MaxDown <- Down
  NoEntry = NoEntry
  Chains = {ca, cb}
  ChannelIds = {h1, h2, h3}
  LineOf <- FirstLine
  LastLine = 1
  MaxChains = 2
  DownstreamPackets = 2
  ChannelTimeout = 1
  ChainTimeout = 1
  DeadlineTimeout = 1
  NotIdle = NotIdle
  FewIds = {h1}
  Watched = {h1}
SPECIFICATION MCSpec
INVARIANT BothEndsAgree ChannelsKnown
PROPERTY ImplementsTunnel StreamsArrive EveryChannelCloses
