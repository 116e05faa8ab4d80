SPECIFICATION Spec
CONSTANTS
  o1 = o1
  agent = agent
  guardian = guardian
  governance = governance
  executor = executor
  BPS = 4
  Owners = {o1}
  Nonces = {1}
  Actors <- MCActors
  RolesOf <- MCRolesOf
  Envelopes <- MCEnvelopes
  Signed <- MCSigned
  MaxDuration = 2
  MaxFreshness = 1
  MaxTime = 3
  Plans = {p1, p2, p3}
  Values = {4, 8}
  InitialLtv = 2
  Amounts = {1, 2}
  Slippages = {1}
  Assets = {"A"}
  Venues = {"V"}
  MaxDebt = 2
SYMMETRY PlanSymmetry
CHECK_DEADLOCK FALSE
INVARIANTS ReservedIsOutstanding SignedCapsHold
PROPERTIES NeverPromisedTwice
