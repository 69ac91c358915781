SPECIFICATION FairSpec
CONSTANTS
  Order <- All
  MaxSignals = 5
INVARIANT NoSpurious
PROPERTY WorkSignalsRun
CHECK_DEADLOCK FALSE
