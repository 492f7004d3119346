SPECIFICATION Spec
CONSTANTS
  Registered = {"registered"}
  Failed = {"failed"}
  Passed = {"passed"}
  Listeners = {"l1", "l2"}
  Clients = {"c1"}
  Opinions = {"o1", "o2"}
  Needed = 1
  MaxCrashes = 2
INVARIANTS
  EventRunsOnce
  OpinionsKept
PROPERTIES
  JobsRun
