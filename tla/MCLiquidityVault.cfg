SPECIFICATION Spec
CONSTANTS
  Lenders = {l1, l2}
  Amounts = {1, 2}
  ReserveFactors = {1}
  BPS = 2
  MaxQueueSteps = 1
  MaxCash = 3
  MaxLoss = 1
  MaxRequests = 2
SYMMETRY LenderSymmetry
INVARIANTS CashCovered QueueFifo QueueBalanced
PROPERTIES HoldersNotDiluted QueueKeepsPromises
