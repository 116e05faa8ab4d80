CONSTANTS
  e1 = e1
  e2 = e2
  wf1 = wf1
  f1 = f1
  Evidence = {e1, e2}
  MaxTxs = 5
  MayInvalidate = TRUE
  Workflows = {wf1}
  Cites <- MCCitesOne
  WorkflowWorkers = {w1}
  MaxSubmissions = 2
  SameSecond = {TRUE, FALSE}
  Fixtures = {f1}
  EvidenceOf <- MCEvidenceOf
  MaxRuns = 1
SPECIFICATION PassportsSpec
CHECK_DEADLOCK FALSE
INVARIANTS
  RecordsFollowChain
  OnePassportPerWorkflow
  ProofsAreOnChain
