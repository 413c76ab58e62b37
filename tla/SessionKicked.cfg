CONSTANTS
  Users = {ann, bob}
  NoUser = nobody
  MaxSessions = 2
  MaxSends = 1
  MaxLogouts = 1
  MaxFaults = 1
  Burst = 2
  Rate = 1
  Cost = 2
  MaxViolations = 2
  MaxIdle = 3
SPECIFICATION Spec
PROPERTIES
  LoginOpensBoard
CHECK_DEADLOCK FALSE
