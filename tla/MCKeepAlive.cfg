SPECIFICATION KSpec
CONSTANTS
  Word = 64
  Margin = 10
  MaxDelay = 1
  SendOffers = {5}
  RecvOffers = {12}
INVARIANT IdleLinkSurvives
CHECK_DEADLOCK FALSE
