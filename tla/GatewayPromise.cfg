SPECIFICATION FairSpec
CONSTANTS
  Clients = {c1}
  Limits = {0, 1}
  Window = 2
  ExecTicks = 1
  MaxRequests = 3
  MaxWaiting = 2
  MaxTime = 2
PROPERTIES
  EveryRequestServed
