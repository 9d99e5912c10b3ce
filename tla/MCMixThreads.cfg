SPECIFICATION MCSpec
CONSTANTS
  MaxQueue = 1
  TimedWait = TRUE
  MaxRead = 1
  MaxSend = 2
  MaxFromNext = 1
  MaxToNext = 1
  MaxLogins = 2
  MaxRequests = 2
  MaxOpen = 4
  N = 4
  MaxFaults = 2
  MaxSession = 4
  Compatible = 71
  Word = 64
  Margin = 3
  MaxDelay = 2
  SendOffers = {4, 6, 9, 12}
  RecvOffers = {4, 6, 9, 12}
  CriticalErrors = 5
INVARIANT NothingUsedAfterClean WakeupNeverSent MixesCleanUp OnlineFromTheEnd NeighboursFit LayersFit IdleLinkSurvives StatusTells
PROPERTY MixesRestart CascadesHeal
