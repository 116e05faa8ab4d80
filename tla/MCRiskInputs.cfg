SPECIFICATION Spec
CONSTANTS
  governance = governance
  guardian = guardian
  admission = admission
  controller = controller
  Actors = {governance, guardian, admission, controller}
  RolesOf <- MCRolesOf
  BPS = 8
  WAD = 2
  SecondsPerYear = 1
  PolicyIds = {"P"}
  Proposals <- MCProposals
  Curves <- MCCurves
  TIMELOCK = 1
  MaxTime = 3
  MaxEpoch = 3
  Assets = {1}
  Headers <- MCHeaders
  Quantity = 2
  Price = 4
  Controller = controller
  MaxVersion = 1
CHECK_DEADLOCK FALSE
INVARIANT QuotesBindPolicy
PROPERTIES LooserOnlyOnNotice GuardianRaisesNothing
