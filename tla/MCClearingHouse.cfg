SPECIFICATION Spec
CONSTANTS
  Accounts = {b1, b2}
  Assets = {1}
  Lenders = {l1}
  Settlement = 0
  BPS = 4
  WAD = 2
  SecondsPerYear = 1
  Policy <- MCPolicy
  Standings <- DebtStandings
  SequencerStates <- DebtSequencer
  Prices <- DebtPrices
  TokenUnit = 2
  RateCurves <- MCRateCurves
  KeeperBps = 0
  ProtocolBps = 1
  Amounts = {1, 2}
  Overrides = {3}
  MaxPriceAges = {1}
  MaxAge <- MCMaxAge
  MaxElapsed = 1
  MaxIndex = 3
  MaxHolding = 1
  MaxSurplus = 1
  MaxCash = 2
  MaxGain = 1
SYMMETRY BorrowerSymmetry
CHECK_DEADLOCK FALSE
INVARIANTS CustodySolvent DebtsAddUp RepayAlwaysOpen
PROPERTY BooksFollowDebt
