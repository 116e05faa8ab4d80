CONSTANTS
  parser = parser
  prompt = prompt
  prompt2 = prompt2
  rogue = rogue
  direct = direct
  disputed = disputed
  forged = forged
  Jobs = {1, 2}
  Workers = {w1, w2}
  Documents = {disputed, forged}
  DocumentOf <- MCDocumentOf
  VersionOf <- MCVersionOf
  Texts <- MCTexts
  Answers <- MCAnswers
  MaxChunks = 2
  Unusable = {forged}
  Misstating = {rogue}
  Extractors <- MCExtractors
  RouteOf <- MCRouteOf
  GroupOf <- MCGroupOf
  Descriptive = {"legal.issuerLegalName"}
  MaxAttempts = 2
  LeaseSeconds = 1
  BackoffCap = 2
  MaxLate = 0
  MaxDeaths = 1
SPECIFICATION JobsSpec
CHECK_DEADLOCK FALSE
INVARIANTS
  RepeatsNeedAReclaim
  FloorNeedsTwoPaths
PROPERTIES
  EveryJobSettles
