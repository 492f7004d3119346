SPECIFICATION Spec
CONSTANTS
  a1 = a1
  a2 = a2
  t1 = t1
  t2 = t2
  Owners = {o}
  NoAccount = NoAccount
  NoSalt = NoSalt
  NoHash = NoHash
  NoWorkflow = NoWorkflow
  Auditors = {a1}
  Salts = {t1, t2, NoSalt}
  ProjectConfigs <- SettlementConfigs
  Deposits = {1}
  TopUps = {45}
  Drains = {1, 4}
  Bonds = {1, 2}
  CommitSignatures = {}
  RevealSignatures = {}
  QueueSignatures = {}
  COOLDOWN = 0
  MIN_CHALLENGE_BOND = 2
  TIMEOUT_PENALTY_BPS = 500
  MaxProjects = 1
  MaxSubmissions = 2
  StartTime = 1
  MaxTime = 5
  MaxBalance = 48
  Workflows = {}
  FallbackSettings = {}
SYMMETRY SaltSymmetry
CHECK_DEADLOCK FALSE
INVARIANTS TypeOK UniqueArbitration Solvent PaidOnceAsRecorded
PROPERTIES ImplementsPromise VerdictIsFinal PoolSpentOnlyByFinalization
