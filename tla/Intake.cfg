SPECIFICATION FairSpec
CONSTANTS
  NC = 2
  PageSize = 1
  PageLimit = 2
  CandidateLimit = 2
  TranscriptLimit = 1
  None = None
  Selections = {{1}}
  MaxUploads <- SomeUploads
  Unstable <- NewestOfFirst
  MaxSurprises = 2
INVARIANTS TypeOK HolesAreExplained
PROPERTY EveryUploadIsStored
