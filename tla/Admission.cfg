SPECIFICATION Spec
CONSTANTS
  a1 = a1
  a2 = a2
  t1 = t1
  t2 = t2
  Owners = {o}
  NoAccount = NoAccount
  NoSalt = NoSalt
  NoHash = NoHash
  NoWorkflow = NoWorkflow
  Auditors = {a1}
  Salts = {t1}
  ProjectConfigs <- AdmissionConfigs
  Deposits = {25}
  TopUps = {}
  Drains = {2}
  Bonds = {2}
  CommitSignatures = {}
  RevealSignatures = {}
  QueueSignatures = {}
  COOLDOWN = 0
  MIN_CHALLENGE_BOND = 2
  TIMEOUT_PENALTY_BPS = 500
  MaxProjects = 1
  MaxSubmissions = 1
  StartTime = 1
  MaxTime = 3
  MaxBalance = 27
  Workflows <- AdmissionWorkflows
  FallbackSettings = {FALSE}
CHECK_DEADLOCK FALSE
PROPERTIES JuryVerdictsFromJuryWorkflow
