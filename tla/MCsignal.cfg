CONSTANTS
  r1 = r1  r2 = r2  r3 = r3
  Clients = {r1, r2, r3}
  MaxSignals = 2
SPECIFICATION FairSpec
PROPERTIES SignalEndsProcess
CHECK_DEADLOCK FALSE
