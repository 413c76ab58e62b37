CONSTANTS
  Processes = {p, q}
  Builds <- MCBuilds
  Broken <- MCBroken
  Ids = {i, j}
  None = None
  MaxVersion = 3
  MaxStarts = 4
SPECIFICATION FairSpec
CHECK_DEADLOCK FALSE
INVARIANTS HistorySound OpensItsOwnSchema OneEvent
PROPERTIES NoSpuriousRefusal StartsUp
