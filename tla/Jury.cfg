SPECIFICATION Spec
CONSTANTS
  r1 = r1
  r2 = r2
  l1 = l1
  h1 = h1
  h2 = h2
  h3 = h3
  NoJuror = NoJuror
  NoCase = NoCase
  NoVerdict = NoVerdict
  LlmCount = 1
  HumanCount = 2
  RequiredConsensus = 2
  RequiredCohort = 1
  Llms = {l1}
  Humans = {h1, h2, h3}
  Times <- OneEach
  Runs = {r1}
  Votes = {"HIGH", "INVALID"}
  Drains = {1}
  MaxReplacements = 1
  MaxIngests = 1
  MaxFinals = 2
  MaxTime = 3
SYMMETRY HumanSymmetry
CHECK_DEADLOCK FALSE
INVARIANTS OneSeatPerJuror JuryVerdictBacked OwnerOnlyAfterDeadlock OneVerdictPerBallot
