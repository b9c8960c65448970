SPECIFICATION FairWatchers
CONSTANTS
  Sources <- MCSources
  Keys = {}
  NoKey = NoKey
  RunCalls = {c1, c2}
  MAX_RETRY_ATTEMPTS = 2
  MaxJobs = 1
  MaxRun = 1
  MaxDisturbances = 1
  Configs <- MCConfigs
  max_concurrent_polls = 1
  queue_capacity = 1
INVARIANTS
  CorpusTypeOK
  OneJobPerKey
  AttemptsBounded
  AwaitsRealReview
  RunningHasARunner
  CursorsHaveJobs
PROPERTIES
  RunsEnd
  PolledVersionsAreQueued
