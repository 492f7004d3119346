SPECIFICATION Spec
CONSTANTS
  a1 = a1
  a2 = a2
  t1 = t1
  t2 = t2
  Owners = {o}
  NoAccount = NoAccount
  NoSalt = NoSalt
  NoHash = NoHash
  NoWorkflow = NoWorkflow
  Auditors = {a1, a2}
  Salts = {t1}
  ProjectConfigs <- MultiConfigs
  Deposits = {25}
  TopUps = {}
  Drains = {4}
  Bonds = {}
  CommitSignatures <- SomeCommitSignatures
  RevealSignatures <- SomeRevealSignatures
  QueueSignatures <- SomeQueueSignatures
  COOLDOWN = 1
  MIN_CHALLENGE_BOND = 2
  TIMEOUT_PENALTY_BPS = 500
  MaxProjects = 1
  MaxSubmissions = 2
  StartTime = 1
  MaxTime = 4
  MaxBalance = 25
  Workflows = {}
  FallbackSettings = {}
SYMMETRY AuditorSymmetry
CHECK_DEADLOCK FALSE
INVARIANTS RevealProvesAuthorship QueueOnlyForCommitted SignatureSpentOnce
PROPERTIES NoCommitAfterReveal
