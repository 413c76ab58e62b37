CONSTANTS
  NoOp = NoOp
  Conns = {c1}
  Callers = {l1}
  Posters = {p1}
  QueueCap = 1
  SendBuffer = 2
  MaxCmds = 1
SPECIFICATION FairSpec
CHECK_DEADLOCK FALSE
INVARIANT JoinedLeaves
PROPERTIES DeliversPrefix EverybodyReturns ShutdownCompletes
