SPECIFICATION Spec
CONSTANTS
  Runs = {r1, r2}
  Amounts = {1, 2}
  MaxTotal = 2
  Workers = {w1}
  LedgerSurvives = TRUE
  MaxNow = 1
  MaxEpoch = 1
  MaxCrashes = 1
CHECK_DEADLOCK FALSE
INVARIANTS OneEffectPerRun UnknownHoldsBudget BudgetHolds CompleteMatchesChain
PROPERTY UnknownIsResolved
