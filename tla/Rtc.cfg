SPECIFICATION FairSpec
CONSTANTS
  Process = {p1, p2}
  Frequency <- EdgeFrequencies
INVARIANTS UndisturbedKeepsFlag RateServesFrequency
PROPERTIES NoEarlyReturn UndisturbedReadReturns
CHECK_DEADLOCK FALSE
