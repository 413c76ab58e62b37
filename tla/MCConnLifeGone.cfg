CONSTANTS
  NoOp = NoOp
  Conns = {c1}
  Callers = {}
  Posters = {}
  QueueCap = 1
  SendBuffer = 2
  MaxCmds = 1
SPECIFICATION Spec
CHECK_DEADLOCK FALSE
INVARIANT ClientsAreConnected
