SPECIFICATION Spec
CONSTANTS
  prod = prod
  c1 = c1
  c2 = c2
  None = None
  Workflows = {prod}
  N = 3
  ItemOf <- MCOwnItems
  RetryFailed = {}
  Coordinators = {c1, c2}
  Recording = {2, 3}
  Refused = {}
  Verdicts = {"succeeded", "failed"}
  MaxCommands = 1
  MaxCrashes = 0
INVARIANTS FlowInv CreatedAfterUpstream SucceededIsPublished
CHECK_DEADLOCK FALSE
