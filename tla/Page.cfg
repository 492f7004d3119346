SPECIFICATION PageSpec
CONSTANTS
  a1 = a1
  t1 = t1
  Owners = {o}
  NoAccount = NoAccount
  NoSalt = NoSalt
  NoHash = NoHash
  NoWorkflow = NoWorkflow
  Auditors = {a1}
  Salts = {t1}
  ProjectConfigs <- WithAndWithoutDisputes
  Deposits = {25}
  TopUps = {}
  Drains = {2}
  Bonds = {2}
  CommitSignatures = {}
  RevealSignatures = {}
  QueueSignatures = {}
  COOLDOWN = 0
  MIN_CHALLENGE_BOND = 2
  TIMEOUT_PENALTY_BPS = 500
  MaxProjects = 1
  MaxSubmissions = 1
  StartTime = 1
  MaxTime = 3
  MaxBalance = 27
  Workflows = {}
  FallbackSettings = {}
  Unread = Unread
  DefaultJuryWindow = 6
  DefaultAdjudicationWindow = 7
  ClockLag = 0
  ClockLead = 1
CHECK_DEADLOCK FALSE
INVARIANTS OffersFollowTheCase StagesNeverLie DraftDatesTheCase
