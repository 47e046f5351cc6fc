SPECIFICATION ArenaSpec
CONSTANTS
  Player = {h, p}
  h = h
  p = p
  Host = h
  Games <- MCGames
  Enrollment = 1
  Grace = 2
  PreLock = 1
  HoldMax = 1
  OracleWait = 1
  Live = 1
  Hold = 1
  RoundSlack = 1
  SettleSlack = 1
  BotNames = 1
  RequestLife = 1
  DepositLife = 1
  MaxPolls = 2
  MaxRequests = 1
  MaxHosts = 1
  MaxRounds = 3
  MaxIdle = 1
CHECK_DEADLOCK FALSE
INVARIANTS
  OneActive
  SettlementFindsDeposits
PROPERTIES
  ResultsAreFinal
  LockSeatsDepositors
  RosterIsFixed
