SPECIFICATION HostingSpec
CONSTANTS
  MaxDrafts = 2
  MaxTxs = 2
  MaxPits = 1
  MaxReloads = 2
  MaxRestarts = 2
  MaxBadWrites = 1
CHECK_DEADLOCK FALSE
INVARIANTS
  CreatedIsPaidAndListed
PROPERTIES
  NeverPaysTwice
  DepositedPitsStand
