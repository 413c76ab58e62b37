CONSTANTS
  Users = {ann, bob}
  NoUser = nobody
  MaxSessions = 1
  MaxSends = 1
  MaxLogouts = 1
  MaxFaults = 2
  Burst = 2
  Rate = 1
  Cost = 2
  MaxViolations = 2
  MaxIdle = 3
SPECIFICATION Spec
INVARIANTS
  ShowsYourMarks
CHECK_DEADLOCK FALSE
