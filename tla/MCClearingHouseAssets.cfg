SPECIFICATION Spec
CONSTANTS
  Accounts = {b1}
  Assets = {1, 2}
  Lenders = {l1}
  Settlement = 0
  BPS = 4
  WAD = 2
  SecondsPerYear = 1
  Policy <- MCPolicy
  Standings <- CollateralStandings
  SequencerStates <- CollateralSequencer
  Prices <- CollateralPrices
  TokenUnit = 2
  RateCurves <- MCRateCurves
  KeeperBps = 0
  ProtocolBps = 1
  Amounts = {1, 2}
  Overrides = {}
  MaxPriceAges = {1}
  MaxAge <- MCMaxAge
  MaxElapsed = 1
  MaxIndex = 3
  MaxHolding = 2
  MaxSurplus = 0
  MaxCash = 2
  MaxGain = 0
CHECK_DEADLOCK FALSE
PROPERTY OnlyInputsEndanger
