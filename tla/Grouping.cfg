SPECIFICATION Spec
CONSTANTS
  Ids = {1, 2, 3, 4}
  Words = {"drains", "draining", "reserve", "the"}
  Tokens = {"drain", "reserv"}
  NoToken = "none"
  tokenOf <- Stems
  Selectors = {"withdraw", "deposit"}
  NoSelector = "short"
  Targets = {"vault"}
  Impacts = {"theft"}
  wordsOf <- ImpactWords
  Requests <- AllRequests
CHECK_DEADLOCK FALSE
INVARIANTS GroupsAreClusters GroupIdsDistinct RanksArePlaces
