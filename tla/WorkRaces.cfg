SPECIFICATION Spec
CONSTANTS
  cue = cue
  micro = micro
  archive = archive
  collect = collect
  w1 = w1
  w2 = w2
  coord = coord
  api = api
  api2 = api2
  op1 = op1
  op2 = op2
  None = None
  Relabel = Relabel
  Items = {cue}
  InlineItems = {}
  TaskRecorders = {}
  JobRecorders = {}
  Upstream <- MCUpstream
  Workers = {w1, w2}
  Coordinators = {}
  ApiRunners = {}
  ProcessOf <- MCOwnProcess
  Operators = {op1, op2}
  MaxAttempts = 2
  MaxCrashes = 1
INVARIANTS TypeOK RunningIsClaimed SucceededHasAttempt
PROPERTIES SucceededAttemptIsFinal
SYMMETRY MCSymmetry
CHECK_DEADLOCK FALSE
