SPECIFICATION BookPitSpec
CONSTANTS
  Human = {1, 2}
  Bot = {3}
  CallPcts = {100}
  Curve <- MCCurve
  Line <- MCLine
  MinB = 20
  MaxB = 20
  BotPcts = {20}
  TapeMax = 6
  WindowMin = 3
  WindowMax = 3
  Vault = 500
  RoundLimit = 2
  Live = 3
  Cutoff = 1
  BotGap = 3
  TapeGap = 1
  Slippage = 5
  Lines = {40}
  Amounts = {300}
  Callers = {1}
  MaxTrades = 1
  Late = 1
CHECK_DEADLOCK FALSE
PROPERTIES
  BookBalances
  TradesCreateNothing
  PositionsFreeze
  SettledAtTheAverage
