SPECIFICATION FairSpec
CONSTANTS
  prod = prod
  c1 = c1
  c2 = c2
  None = None
  Workflows = {prod}
  N = 3
  ItemOf <- MCOwnItems
  RetryFailed = {prod}
  Coordinators = {c1}
  Recording = {2, 3}
  Refused = {}
  Verdicts = {"succeeded", "failed"}
  MaxCommands = 1
  MaxCrashes = 1
INVARIANTS RetriedOnce
PROPERTIES EndedStaysEnded WorkflowSettles WorkflowPublishes
CHECK_DEADLOCK FALSE
