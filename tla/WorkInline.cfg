SPECIFICATION Spec
CONSTANTS
  cue = cue
  micro = micro
  archive = archive
  collect = collect
  w1 = w1
  w2 = w2
  coord = coord
  api = api
  api2 = api2
  op1 = op1
  op2 = op2
  None = None
  Relabel = Relabel
  Items = {archive}
  InlineItems = {archive}
  TaskRecorders = {archive}
  JobRecorders = {}
  Upstream <- MCUpstream
  Workers = {}
  Coordinators = {coord}
  ApiRunners = {api, api2}
  ProcessOf <- MCOwnProcess
  Operators = {op1}
  MaxAttempts = 2
  MaxCrashes = 1
INVARIANTS WorkInv
PROPERTIES ClaimsAreExclusive
CHECK_DEADLOCK FALSE
