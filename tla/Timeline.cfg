SPECIFICATION Spec
CONSTANTS
  Micro <- SomeMicro
  OverbroadCount = 3
  LargeCount = 4
  ManyKinds = 3
  ChunkSize = 2
  ShortBreak = 2
  DailyKinds = {"OPINION", "QNA"}
  Drafts <- SomeDrafts
  Redrafts <- SomeRedrafts
  Looks <- SomeLooks
  MaxEpisodeRepairs = 1
  MaxCoverageRepairs = 2
  FallbackLimit = 3
  Patchers = {p1, p2}
  MaxChanges = 2
INVARIANTS TypeOK RepairedIsStorable TopicsResolve ArrangementSettles SoundEpisodesAreKept StoredIsWhole CatalogFollowsTimeline
SYMMETRY MCSymmetry
CHECK_DEADLOCK FALSE
