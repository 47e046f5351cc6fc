SPECIFICATION SpotPitSpec
CONSTANTS
  Human = {1, 2}
  Bot = {3}
  CallPcts = {50}
  Asset = {"BTC", "ETH"}
  Questions <- MCQuestions
  Chance <- MCChance
  CloseFresh = 1
  OracleWait = 2
  Formats = {"royale", "predictions", "streak"}
  Quotes <- MCQuotes
  Boards <- MCBoards
  Deck <- MCDeck
  LegMs = 2
  PickMs = 1
  Live = 2
  Cutoff = 1
  BotGap = 2
  Jump = 1
  JumpWindow = 1
  Divergence = 0
  Slippage = 5
  Spread = 1
  Vault = 500
  RoundLimit = 2
  BotStakes = {50}
  CardPicks <- MCCardPicks
  BotCards <- MCBotCards
  Locks <- MCLocks
  Actors = {1}
  Amounts = {300}
  MaxTrades = 1
  Late = 2
CHECK_DEADLOCK FALSE
INVARIANTS
  StreakStandings
  CardsScoredByRules
PROPERTIES
  PicksLockOnTime
  TradesPayTheSpread
