SPECIFICATION FairSpec
CONSTANTS
  p1 = p1
  p2 = p2
  p3 = p3
  Player = {p1, p2, p3}
  WalletFunds = 4
  Funds <- MCFunds
  Amounts = {0, 1, 2}
  Capacities = {1, 2, 3}
  Deadlines = {0, 2}
  FeeRates = {1, 3}
  MaxU64 = 8
  MaxClaimFeeBps = 2
  FeeDenominator = 4
  MaxTime = 2
CHECK_DEADLOCK FALSE
INVARIANTS
  TypeOK
  BooksBalance
  Solvent
  NobodyStranded
  PaidExactlyOnce
PROPERTIES
  SettlementFinal
  ImplementsCustody
  EveryoneExits
