CONSTANTS
  NoRequest = NoRequest
  RequestIds = {w1, s1}
  WebRequests = {w1, NoRequest}
  ScriptRequests = {s1}
  Calls = {c1, c2}
  MaxCalls = 2
  Verifiers = {v1, v2}
SPECIFICATION Spec
CHECK_DEADLOCK FALSE
SYMMETRY Symmetric
INVARIANTS
  ReleaseReportsAreTrue
PROPERTIES
  PreparationsDoNotMix
