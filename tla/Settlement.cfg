SPECIFICATION SettlementFairSpec
CONSTANTS
  Player = {1, 2}
  WalletFunds = 2
  Funds <- MCFunds
  Amounts = {1}
  Capacities = {3}
  Deadlines = {1}
  FeeRates = {1}
  MaxU64 = 12
  MaxClaimFeeBps = 1
  FeeDenominator = 10
  MaxTime = 2
  MaxHostFeePct = 5
  EntryAmount = 1
  VaultAmount = 1
  Capacity = 3
  Deadline = 1
  FeeBps = 1
  FinalVaults <- MCPairVaults
  RefundSafety = 1
  DepositLife = 0
  PerTx = 1
  MaxAborts = 1
CHECK_DEADLOCK FALSE
INVARIANTS
  RecordsStayTrue
  SeatsComeBackWhole
  PlayersGetTheirShares
  NextAttemptCloses
PROPERTIES
  EventuallyRecorded
