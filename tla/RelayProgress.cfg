SPECIFICATION Spec
CONSTANTS
  a = a
  x = x
  y = y
  c1 = c1
  Cycles = {c1}
  Subs = {a,x,y}
  UniqueSubs = {x,y}
  Precommitted = {a,y}
  Requeuers = {}
  Revealers = {y}
  SigDeadlines = {4}
  Openings = {TRUE}
  commitDeadline = 1
  revealDeadline = 0
  lookbackBlocks = 3
  replayOverlapBlocks = 1
  logChunkBlocks = 2
  maxExecutionBatchSize = 1
  maxAttempts = 2
  LiveAbi = FALSE
  Durable = TRUE
  Flaky = FALSE
  MaxCrashes = 0
  MaxBlock = 4
  MaxCursor = 5
INVARIANTS
  NothingSkipped
  CandidatesKept
PROPERTIES
  RememberedRevealsHappen
