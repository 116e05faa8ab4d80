CONSTANTS
  Adapters = {A, B}
  FirstAdapter = A
  Requests = {r1, r2}
  NoId = NoId
  Units = 2
  Restrictable = {"SUBSTITUTION"}
  Principal = 1
  MaxOwed = 2
  Prices = {1}
  MaturityAt = 1
  Grace = 0
  RecallGrace = 1
  DecisionLife = 1
  MaxTime = 1
  MaxEpoch = 2
SPECIFICATION FacilitySpec
CHECK_DEADLOCK FALSE
INVARIANT CollateralBehindDebt
PROPERTY ImplementsPhases
