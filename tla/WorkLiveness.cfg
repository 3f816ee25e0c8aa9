SPECIFICATION FairSpec
CONSTANTS
  cue = cue
  micro = micro
  archive = archive
  collect = collect
  w1 = w1
  w2 = w2
  coord = coord
  api = api
  api2 = api2
  op1 = op1
  op2 = op2
  None = None
  Relabel = Relabel
  Items = {cue, micro}
  InlineItems = {}
  TaskRecorders = {micro}
  JobRecorders = {}
  Upstream <- MCUpstream
  Workers = {w1}
  Coordinators = {}
  ApiRunners = {}
  ProcessOf <- MCOwnProcess
  Operators = {op1}
  MaxAttempts = 2
  MaxCrashes = 1
INVARIANTS StartedAfterUpstream
PROPERTIES PendingIsServed ExpiredBeforeRestartIsRecovered
CHECK_DEADLOCK FALSE
