SPECIFICATION PaySpec
CONSTANTS
  MaxPlayers = 4
  EntryFees = {0, 3, 20}
  VaultAmounts = {2}
  HostFeePcts = {0, 5, 30}
  Scores = {0, 1, 2, 3}
  CashAmounts = {0, 1, 5}
  MaxHostFeePct = 5
CHECK_DEADLOCK FALSE
INVARIANTS
  PrizesAsAdvertised
  SharesFollowResults
