SPECIFICATION Spec
CHECK_DEADLOCK FALSE
CONSTANTS
  s1 = s1
  s2 = s2
  Subs = {s1, s2}
  Handlers = {h1, h2}
  Inits = {i1, i2}
  Balance = 2
  Takes <- AllAndMore
  PoCs <- PlainAndFilling
  Rules <- Limits
  Signer = "none"
  Admits <- BothOpen
  Urls <- Repeated
  MaxAttempts = 2
  MaxRetries = 1
  Durable = TRUE
  Versions = {1, 2}
  NoSnapshot = NoSnapshot
  Times <- OneEach
  MaxDeliveries = 2
  MaxCrashes = 1
  MaxOverwrites = 1
SYMMETRY Alike
INVARIANTS
  ExactDrain
  VerdictOnCommittedPayload
  OneOutcome
  CompletedIsReported
  EvidenceOpensCase
