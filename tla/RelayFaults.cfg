SPECIFICATION Spec
CONSTANTS
  a = a
  b = b
  c1 = c1
  Cycles = {c1}
  Subs = {a, b}
  UniqueSubs = {}
  Precommitted = {a, b}
  Requeuers = {a}
  Revealers = {}
  SigDeadlines = {3}
  Openings = {TRUE, FALSE}
  commitDeadline = 1
  revealDeadline = 0
  lookbackBlocks = 3
  replayOverlapBlocks = 1
  logChunkBlocks = 3
  maxExecutionBatchSize = 2
  maxAttempts = 2
  LiveAbi = FALSE
  Durable = TRUE
  Flaky = TRUE
  MaxCrashes = 1
  MaxBlock = 4
  MaxCursor = 5
INVARIANTS
  ClaimedOnce
  ClaimBeforeSend
PROPERTIES
  FailClosed
