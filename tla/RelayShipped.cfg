SPECIFICATION Spec
CONSTANTS
  a = a
  c1 = c1
  Cycles = {c1}
  Subs = {a}
  UniqueSubs = {}
  Precommitted = {a}
  Requeuers = {}
  Revealers = {}
  SigDeadlines = {4}
  Openings = {TRUE}
  commitDeadline = 2
  revealDeadline = 0
  lookbackBlocks = 3
  replayOverlapBlocks = 1
  logChunkBlocks = 3
  maxExecutionBatchSize = 1
  maxAttempts = 2
  LiveAbi = TRUE
  Durable = TRUE
  Flaky = FALSE
  MaxCrashes = 0
  MaxBlock = 4
  MaxCursor = 5
INVARIANTS
  NothingSkipped
