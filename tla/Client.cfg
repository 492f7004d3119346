SPECIFICATION Spec
CHECK_DEADLOCK FALSE
CONSTANTS
  Stranger = Stranger
  Service = Service
  UploadApi = {TRUE, FALSE}
  None = None
  Unreadable = Unreadable
  Tabs = {t1, t2}
  Accounts = {a1, a2}
  Projects = {p1, p2}
  PoCs = {x}
  Slots = {s1, s2}
  Encrypted = TRUE
  FirstId = 1
  MaxSubmits = 2
  MaxSwitches = 1
  MaxGrants = 1
  MaxVersions = 2
  OtherPoCs = {o}
SYMMETRY Alike
INVARIANTS
  CommittedIsStored
  ReportedIsCommitted
  ContextCommittedOnce
