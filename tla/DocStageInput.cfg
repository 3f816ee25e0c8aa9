SPECIFICATION FairSpec
CONSTANTS
  prod = prod
  c1 = c1
  c2 = c2
  None = None
  Workflows = {prod}
  N = 5
  ItemOf <- MCOwnItems
  RetryFailed = {}
  Coordinators = {c1}
  Recording = {3, 4, 5}
  Refused = {4, 5}
  Verdicts = {"succeeded"}
  MaxCommands = 0
  MaxCrashes = 0
PROPERTIES WorkflowPublishes
CHECK_DEADLOCK FALSE
