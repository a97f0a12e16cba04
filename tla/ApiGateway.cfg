SPECIFICATION Spec
CONSTANTS
  Clients = {c1, c2}
  Limits = {2}
  Window = 2
  ExecTicks = 1
  MaxRequests = 4
  MaxWaiting = 2
  MaxTime = 3
SYMMETRY ClientSymmetry
INVARIANTS
  GatewayTypeOK
  TableAccounts
  BurstBounded
  WaitBounded
PROPERTIES
  RefusalEarned
