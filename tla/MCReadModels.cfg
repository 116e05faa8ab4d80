CONSTANTS
  Mandates = {"m"}
  Accounts = {"a"}
  Holders = {"a", "b"}
  One = 2
  SafeDepth = 2
  AccountingMode = "EXTERNALLY_SCALED"
  PriceConvention = "FACTOR_IN_QUANTITY"
  Dimensions <- MCDimensions
  CapBps <- MCCapBps
  SessionFactorBps <- MCSessionFactorBps
  Scenarios <- MCScenarios
  Wad = 20
  Bps = 10
  MaxBlocks = 3
  MaxForks = 2
  MaxReadings = 2
  MaxActions = 5
  MaxBalance = 5
  Factors = {3}
  Instruments = {"i", "j", "k"}
  Offers <- MCOffers
  Listings <- MCListings
  Quotes <- MCQuotes
  FactorOne = 2
  FacilityLimit = 5
  MaxLtvBps = 7
  LiquidationLtvBps = 9
  SafetyBufferBps = 8
  OriginationFeeBps = 1
  MaxInstruments = 2
  MaxHeld = 3
  MaxFunds = 2
  Wallets = {w1, w2}
  Nobody = Nobody
  Menus = {{"addCollateral"}, {"borrow", "withdrawCollateral"}, {"repay"}, {"supply"}, {"exit"}, {"arm"}, {"mandate"}, {"instance"}}
  Amounts = {1}
  Shares = {1, 2}
  MaxDebt = 2
  MaxEpoch = 2
  MaxVisits = 2
  MaxWishes = 2
  MaxSubmissions = 2
  MaxTransactions = 2
  safety = safety
  yield = yield
  Instances = {safety, yield}
  PolicyOf <- MCPolicyOf
  Whole = 4
  Debts = {4}
  Limits = {4}
  Contents = {"news"}
  Claims = {"DETERMINISTIC_ONCHAIN"}
  Interval = 2
  MaxClock = 1
  MaxWakes = 3
SPECIFICATION Spec
CHECK_DEADLOCK FALSE
INVARIANTS
  ProjectionsFollowTheLog
  FiguresOutliveReorgs
  GroupsStayCapped
  WishedOnce
  LandsAsShown
  PacingHolds
  YieldYields
PROPERTIES
  NobodyIsDiluted
  TakingOutLeavesRoom
