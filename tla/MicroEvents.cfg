SPECIFICATION FairSpec
CONSTANTS
  WindowLength = 6
  EvidenceLimit = 2
  CueLists <- SomeCueLists
  Answers <- SomeAnswers
  Concurrency = 2
  MaxRetries = 1
  MaxAttempts = 2
  MaxFaults = 1
INVARIANTS TypeOK NoCueIsLost WindowsPartitionTheirCues SuccessIsComplete
PROPERTIES SuccessfulWindowsAreKept ExtractionEnds
CHECK_DEADLOCK FALSE
