SPECIFICATION FairSpec
CONSTANTS
  NC = 1
  PageSize = 1
  PageLimit = 2
  CandidateLimit = 2
  TranscriptLimit = 1
  None = None
  Selections = {{1}}
  MaxUploads <- OneUpload
  Unstable <- NoVideos
  MaxSurprises = 0
PROPERTY NewVideosGetTranscripts
