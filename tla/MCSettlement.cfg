SPECIFICATION FairSettlement
CONSTANTS
  Settlers = {t1, t2, t3}
  Verdicts <- MCVerdicts
  MaxBytes = 1
  MaxNr = 4
  NoBytes = NoBytes
PROPERTY EverySettlementEnds
CHECK_DEADLOCK FALSE
