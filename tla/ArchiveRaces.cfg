SPECIFICATION Spec
CONSTANTS
  v1 = v1
  v2 = v2
  prod = prod
  dev = dev
  live = live
  trial = trial
  p1 = p1
  p2 = p2
  None = None
  Videos = {v1, v2}
  Environments = {prod, dev}
  Profiles = {live, trial}
  Targets <- MCTargets
  Publishers = {p1, p2}
  MaxExecutions = 2
  MaxClock = 1
  MaxChecks = 1
SYMMETRY MCSymmetry
INVARIANTS TypeOK ReadersResolve SuccessShowsAll CatalogIsCurrent
PROPERTIES ShownMovesForward
CHECK_DEADLOCK FALSE
