CONSTANTS
  e1 = e1
  e2 = e2
  wf1 = wf1
  f1 = f1
  Evidence = {e1, e2}
  MaxTxs = 4
  MayInvalidate = FALSE
  Workflows = {wf1}
  Cites <- MCCitesOne
  WorkflowWorkers = {w1, w2}
  MaxSubmissions = 2
  SameSecond = {TRUE, FALSE}
  Fixtures = {f1}
  EvidenceOf <- MCEvidenceOf
  MaxRuns = 0
SYMMETRY WorkerSymmetry
SPECIFICATION PassportsSpec
CHECK_DEADLOCK FALSE
INVARIANT OnePassportPerWorkflow
