SPECIFICATION ArenaFairSpec
CONSTANTS
  Player = {h}
  h = h
  Host = h
  Games <- MCSolo
  Enrollment = 1
  Grace = 2
  PreLock = 1
  HoldMax = 2
  OracleWait = 1
  Live = 1
  Hold = 1
  RoundSlack = 1
  SettleSlack = 1
  BotNames = 2
  RequestLife = 1
  DepositLife = 0
  MaxPolls = 1
  MaxRequests = 1
  MaxHosts = 1
  MaxRounds = 3
  MaxIdle = 2
CHECK_DEADLOCK FALSE
PROPERTIES
  EveryGameEnds
